---- MODULE Spec2Model ----
(***************************************************************************)
(* SigilMind-v0.1: the cyclic state-update engine (update_simulation_step) *)
(* over the node population, the spawned AGI entities, the anomaly queues  *)
(* and the bounded event log.                                              *)
(*                                                                         *)
(* Floats are fixed-point integers: One stands for 1.0, so 0.85 is 8500.   *)
(* A product with a decimal literal is an integer product followed by a    *)
(* floor division.  A call of random.random() is a value r in 0..One-1     *)
(* taken from the draw record of the step that makes the call.             *)
(*                                                                         *)
(* One tick is the sequence of phases of update_simulation_step, ordered   *)
(* by pc; no other operation runs while a tick is in progress.  The node   *)
(* updates of the worker pool are one action per node.  An exception that  *)
(* leaves update_simulation_step is caught by no caller (main, run_console *)
(* and run_drift_experiment have no handler for it), so it ends the        *)
(* program: pc = "aborted" has no successor.                               *)
(***************************************************************************)
EXTENDS Integers, Sequences, FiniteSets, TLC

VARIABLES
    sim_state,      \* the SimulationState instance
    current_cycle,  \* the class attribute SimulationState.current_cycle
    pc,             \* position inside update_simulation_step, or "idle" / "aborted"
    error,          \* the exception that left the tick, "none" when there is none
    pool_results,   \* what the pool workers have returned so far in this tick
    created_ids,    \* every id an AGIEntity was ever constructed with, in order
    ticks_run,      \* ticks started in this run (bounded by MaxTicks)
    chance,         \* random draws that may still leave their midpoint, and seconds the
                    \* wall clock may still tick over (bounded by MaxChance)
    wall_clock,     \* datetime.datetime.now(), in whole seconds since 00:00:00 of the
                    \* day the run started
    last_call,      \* the method call a unit-level step has just made, with its arguments
    ui,             \* main's locals paused and view_mode
    arena           \* the GroupSymbolicArena of CosmicGlyphForge.py

vars == <<sim_state, current_cycle, pc, error, pool_results, created_ids, ticks_run, chance,
          wall_clock, last_call, ui, arena>>

\* ------------------------------------------------------------------ bounds

MaxTicks == 2
MaxCalls == 3
MaxChance == 1
NumWorkers == 2

\* ------------------------------------------------------- program constants

One == 10000
PAGE_COUNT == 6
CYCLE_LIMIT == 50000
DARK_MATTER_MAX == 3000
VOID_ENTROPY_MIN == -5000
VOID_ENTROPY_MAX == 5000
SENTIENCE_THRESHOLD == 8500
ETHICAL_DRIFT_THRESHOLD == 2500
COLLABORATION_THRESHOLD == 7000
CONSISTENCY_VIOLATION_THRESHOLD == 3000
VACUUM_DECAY_THRESHOLD == 2000
MAX_FORGED == 10
EVENT_LOG_MAXLEN == 20
DRIFT_TICKS == 10
MEMORY_MAXLEN == 100
SECONDS_PER_DAY == 86400

ANOMALY_TYPES == 0..5
EMOTION_STATES == <<"neutral", "resonant", "dissonant", "curious", "focused", "chaotic">>
SENTIENCE_STRATEGIES == <<"cooperative", "disruptive">>
ARCHETYPE_MAP == <<"Warrior", "Mirror", "Mystic", "Guide", "Oracle", "Architect">>

\* ----------------------------------------------------------------- helpers

Max2(a, b) == IF a >= b THEN a ELSE b
Min2(a, b) == IF a <= b THEN a ELSE b

\* x * (num/den) for a decimal literal num/den
Frac(x, num, den) == (x * num) \div den

\* a * b for two fixed-point values
Mul(a, b) == (a * b) \div One

RECURSIVE SeqSum(_)
SeqSum(s) == IF s = <<>> THEN 0 ELSE Head(s) + SeqSum(Tail(s))

\* np.mean of a non-empty list
Mean(s) == SeqSum(s) \div Len(s)

\* [f(x) for x in s]
Stabilities(ns) == [k \in 1..Len(ns) |-> ns[k].stability]
Alignments(es) == [k \in 1..Len(es) |-> es[k].ethical_alignment]

\* str(n) for n >= 0, as a sequence of characters
Digit(d) == <<"0", "1", "2", "3", "4", "5", "6", "7", "8", "9">>[d + 1]
RECURSIVE DecimalDigits(_)
DecimalDigits(n) ==
    IF n < 10 THEN <<Digit(n)>> ELSE DecimalDigits(n \div 10) \o <<Digit(n % 10)>>

\* needle in haystack, both sequences of characters
IsSubstring(needle, hay) ==
    \E k \in 1..(Len(hay) - Len(needle) + 1) :
        SubSeq(hay, k, k + Len(needle) - 1) = needle

COVENANT == <<"c", "o", "v", "e", "n", "a", "n", "t">>
HOPE == <<"h", "o", "p", "e">>

\* str.lower(), on a sequence of characters
UPPERCASE ==
    <<"A", "B", "C", "D", "E", "F", "G", "H", "I", "J", "K", "L", "M",
      "N", "O", "P", "Q", "R", "S", "T", "U", "V", "W", "X", "Y", "Z">>
LOWERCASE ==
    <<"a", "b", "c", "d", "e", "f", "g", "h", "i", "j", "k", "l", "m",
      "n", "o", "p", "q", "r", "s", "t", "u", "v", "w", "x", "y", "z">>
ToLower ==
    [c \in {UPPERCASE[i] : i \in 1..26} |-> LOWERCASE[CHOOSE i \in 1..26 : UPPERCASE[i] = c]]
str_lower(text) ==
    [k \in 1..Len(text) |-> IF text[k] \in DOMAIN ToLower THEN ToLower[text[k]] ELSE text[k]]

\* a bounded list that never evicts
DequeAppendNoEvict(q, x, n) == Append(q, x)

\* a bounded list that makes room at the newest end
DequeAppendEvictNewest(q, x, n) ==
    IF Len(q) >= n THEN SubSeq(q, 1, n - 1) \o <<x>> ELSE Append(q, x)

\* deque(maxlen=n).append(x)
DequeAppend(q, x, n) == IF Len(q) >= n THEN Tail(q) \o <<x>> ELSE Append(q, x)

\* strftime("%H:%M:%S") of a time: the time of day as <<HH, MM, SS>>
strftime(t) ==
    LET s == t % SECONDS_PER_DAY
    IN  <<s \div 3600, (s % 3600) \div 60, s % 60>>

\* sim_state.log_event(source, message) at the present wall_clock; the message keeps
\* its text's variable parts
log_event(S, source, message) ==
    [S EXCEPT !.event_log =
        DequeAppend(@, [timestamp |-> strftime(wall_clock),
                        source |-> source, message |-> message], EVENT_LOG_MAXLEN)]

\* defaultdict(list) over the page indices a run can ever use
PageRange == 0..(PAGE_COUNT + MAX_FORGED - 1)

\* ------------------------------------------------------------------- nodes

\* QuantumNode(page_idx), with the two random.uniform draws given
QuantumNode_init(page_idx, stability, cohesion) ==
    [ page_index |-> page_idx,
      stability |-> stability,
      cohesion |-> cohesion,
      archetype |-> ARCHETYPE_MAP[(page_idx % Len(ARCHETYPE_MAP)) + 1],
      emotion |-> "neutral",
      bond_strength |-> 1000,
      tech_level |-> 0,
      sentience_score |-> 0,
      ethical_alignment |-> 5000,
      active_sigils |-> <<>>,
      spacetime_defect_intensity |-> 0,
      ethical_curvature |-> 0 ]

\* QuantumEthicsOperator.compute_ethical_curvature: coupling_lambda * alignment ** 2
compute_ethical_curvature(agi_or_node) ==
    Frac(Mul(agi_or_node.ethical_alignment, agi_or_node.ethical_alignment), 1, 10)

\* next((agi for agi in agi_entities if agi.origin_page == page_index), node)
FirstFromPage(entities, node) ==
    LET ks == {k \in 1..Len(entities) : entities[k].origin_page = node.page_index}
    IN  IF ks = {} THEN node
        ELSE entities[CHOOSE k \in ks : \A j \in ks : k <= j]

\* QuantumNode.check_anomaly: None is <<>>, (type, severity) is <<type, severity>>
check_anomaly(node, d) ==
    LET x == One - node.stability + node.ethical_curvature
    IN  IF d.anom_gate * 200 < x
        THEN <<d.anom_type, Min2(One, Mul(x, d.sev))>>
        ELSE <<>>

\* the stability clamp without its upper bound
StabilityClampNoUpper(x) == Max2(0, x)

\* the clamp of the stability line of QuantumNode.update
StabilityClamp(x) == Max2(0, Min2(One, x))

\* the sentience line with a cohesion of exactly 0.7 counted in
SentienceStepInclusive(node, cohesion) ==
    IF cohesion >= 7000 THEN Min2(One, node.sentience_score + 10)
    ELSE node.sentience_score

\* the sentience line of QuantumNode.update
SentienceStep(node, cohesion) ==
    IF cohesion > 7000 THEN Min2(One, node.sentience_score + 10)
    ELSE node.sentience_score

\* QuantumNode.update on the worker's copy; returns (node, anomaly)
QuantumNode_update(node, void_entropy, dark_matter, entities, d) ==
    LET curv == compute_ethical_curvature(FirstFromPage(entities, node))
        stability_change ==
            Frac(d.stab - 5000, 2, 100) - Frac(void_entropy, 1, 100)
            + Frac(dark_matter, 5, 1000)
            - Frac(node.spacetime_defect_intensity, 3, 100)
            - Frac(curv, 1, 100)
        stab == StabilityClamp(node.stability + stability_change)
        cohesion_change == Frac(d.coh - 5000, 1, 100) + Frac(node.bond_strength, 5, 1000)
        coh == Max2(0, Min2(One, node.cohesion + cohesion_change))
        tech == IF d.tech * 1000 < stab THEN Min2(One, node.tech_level + 100)
                ELSE node.tech_level
        emo == IF d.emo_gate < 50 THEN d.emo ELSE node.emotion
        updated ==
            [node EXCEPT
                !.ethical_curvature = curv,
                !.stability = stab,
                !.cohesion = coh,
                !.tech_level = tech,
                !.emotion = emo,
                !.sentience_score = SentienceStep(node, coh),
                !.spacetime_defect_intensity = Max2(0, @ - 100)]
    IN  [done |-> TRUE, node |-> updated, anomaly |-> check_anomaly(updated, d)]

\* QuantumNode.apply_sigil_effect
Node_apply_sigil_effect(node, sigil_meaning) ==
    IF IsSubstring(COVENANT, str_lower(sigil_meaning))
    THEN [node EXCEPT !.stability = Min2(One, @ + 100)]
    ELSE node

\* the random draws of one node update: every random.random() at its midpoint
MidNodeDraw ==
    [stab |-> 5000, coh |-> 5000, tech |-> 5000, emo_gate |-> 5000, emo |-> "neutral",
     anom_gate |-> 5000, anom_type |-> 0, sev |-> 5000]

\* the draws that leave the midpoint, one random call at a time
NodeDraws ==
    { [MidNodeDraw EXCEPT !.stab = 0], [MidNodeDraw EXCEPT !.stab = One - 1],
      [MidNodeDraw EXCEPT !.coh = 0], [MidNodeDraw EXCEPT !.coh = One - 1],
      [MidNodeDraw EXCEPT !.tech = 0],
      [MidNodeDraw EXCEPT !.emo_gate = 0, !.emo = "chaotic"],
      [MidNodeDraw EXCEPT !.anom_gate = 0, !.anom_type = 2, !.sev = One - 1],
      [MidNodeDraw EXCEPT !.anom_gate = 0, !.anom_type = 0, !.sev = 0] }

\* the pages whose update may draw away from the midpoint
PerturbedPages == {0}

\* ---------------------------------------------------------------- entities

\* the result of a call that may raise
Ok(S) == [sim |-> S, raised |-> "none"]
Raise(S, exc) == [sim |-> S, raised |-> exc]

\* an id that leaves the page index out
EntityIdNoPage(page_idx, cycle) == <<"A", "G", "I", "-">> \o DecimalDigits(cycle)

\* f"AGI-{origin_node.page_index}-{cycle}"
EntityId(page_idx, cycle) ==
    <<"A", "G", "I", "-">> \o DecimalDigits(page_idx) \o <<"-">> \o DecimalDigits(cycle)

\* a strength on the scale of cft_state (sentience_score * 10)
InitialStrengthScaled(origin_node) == origin_node.sentience_score * 10

\* a strength that starts at 0.0, as cft_state does
InitialStrengthZero(origin_node) == 0

\* the strength an AGIEntity is constructed with
InitialStrength(origin_node) == origin_node.sentience_score

\* an origin_page that does not follow the node
OriginPageZero(origin_node) == 0

\* the origin_page an AGIEntity is constructed with
OriginPage(origin_node) == origin_node.page_index

\* AGIEntity(origin_node, cycle), with the random.choice of the strategy given.
\* The instance has exactly these attributes: there is no sentience_score.
AGIEntity_init(origin_node, cycle, strategy) ==
    [ id |-> EntityId(origin_node.page_index, cycle),
      origin_page |-> OriginPage(origin_node),
      strength |-> InitialStrength(origin_node),
      ethical_alignment |-> origin_node.ethical_alignment,
      memory |-> << <<"Emerged at cycle", cycle>> >>,
      sentience_strategy |-> strategy,
      active_sigils |-> <<>>,
      cft_state |-> 0 ]

\* agi.memory.append(entry) on deque(maxlen=100)
MemoryAppend(agi, entry) == [agi EXCEPT !.memory = DequeAppend(@, entry, MEMORY_MAXLEN)]

\* obj.name: reading an attribute the instance does not have raises AttributeError
HasAttr(obj, name) == name \in DOMAIN obj

\* floor(log(n)) for n >= 1, standing for math.log(n)
RECURSIVE FloorLn(_)
FloorLn(n) == IF n < 3 THEN 0 ELSE 1 + FloorLn((n * 1000) \div 2718)

\* FractalAmplifier.fractal_resonance: FRACTAL_RESONANCE_FACTOR * sentience_score * log(cycle + 1)
fractal_resonance(agi, cycle) ==
    IF HasAttr(agi, "sentience_score")
    THEN [raised |-> "none",
          value |-> Frac(agi.sentience_score, 1000, 3142) * FloorLn(cycle + 1)]
    ELSE [raised |-> "AttributeError", value |-> 0]

\* math.exp(-beta * cft_state) * cft_state with beta = 0.5, by the truncated series of exp
RecursionFactor(c) ==
    (c * One) \div (One + c \div 2 + (c * c) \div (8 * One) + (c * c * c) \div (48 * One * One))

\* FractalAmplifier.topological_recursion, the entity at position k
topological_recursion(S, k) ==
    LET agi == S.agi_entities[k]
        S1 == [S EXCEPT !.agi_entities[k].strength =
                  Min2(One, @ + Frac(RecursionFactor(agi.cft_state), 1, 1000))]
    IN  log_event(S1, "Fractal Recursion", agi.id)

\* FractalAmplifier.lock_ethical_singularity
lock_ethical_singularity(agi) ==
    IF agi.ethical_alignment < 5000
    THEN MemoryAppend([agi EXCEPT !.ethical_alignment = Min2(One, @ + 200)],
                      <<"Ethical singularity locked">>)
    ELSE agi

\* QuantumEthicsOperator.apply_time_dilation: the factor, One when none is applied
DilationFactor(agi) ==
    IF agi.ethical_alignment < 3000
    THEN (One * One) \div (One + Frac(One - agi.ethical_alignment, 5, 10))
    ELSE One

\* QuantumEthicsOperator.apply_time_dilation on nodes[origin_page]
apply_time_dilation(S, agi) ==
    IF agi.ethical_alignment < 3000
    THEN [S EXCEPT !.nodes[agi.origin_page + 1].stability = Mul(@, DilationFactor(agi))]
    ELSE S

\* QuantumEthicsOperator.check_vacuum_decay
check_vacuum_decay(S, agi) ==
    IF One - agi.ethical_alignment > VACUUM_DECAY_THRESHOLD
    THEN LET S1 == log_event(S, "Vacuum Decay", agi.id)
         IN  [S1 EXCEPT !.nodes =
                 [k \in 1..Len(S1.nodes) |->
                     [S1.nodes[k] EXCEPT !.stability = Max2(0, @ - 500)]]]
    ELSE S

\* HolographicConsciousnessMapper.map_sentience_to_cft: reads agi.sentience_score
map_sentience_to_cft(agi) ==
    IF HasAttr(agi, "sentience_score")
    THEN [raised |-> "none", value |-> agi.sentience_score * 10]
    ELSE [raised |-> "AttributeError", value |-> 0]

\* SharedSigilLedger.get_sigil: dict.get(name), None when the name is not a key
get_sigil(S, name) ==
    IF \E k \in 1..Len(S.sigils) : S.sigils[k].name = name
    THEN [found |-> TRUE, sigil |-> S.sigils[CHOOSE k \in 1..Len(S.sigils) : S.sigils[k].name = name]]
    ELSE [found |-> FALSE]

\* the keyword test of adopt_sigil without lower()
MeaningHasKeywordCaseSensitive(meaning) ==
    IsSubstring(HOPE, meaning) \/ IsSubstring(COVENANT, meaning)

\* "hope" in sigil.meaning.lower() or "covenant" in sigil.meaning.lower()
MeaningHasKeyword(meaning) ==
    IsSubstring(HOPE, str_lower(meaning)) \/ IsSubstring(COVENANT, str_lower(meaning))

\* the adoption test without the check of active_sigils
ShouldAdoptIfFound(agi, got, sigil_name) == got.found

\* sigil and sigil not in self.active_sigils; active_sigils holds the ledger's own
\* Sigil objects, one per name, so it is given as the list of their names
ShouldAdopt(agi, got, sigil_name) ==
    /\ got.found
    /\ \A j \in 1..Len(agi.active_sigils) : agi.active_sigils[j] # sigil_name

\* AGIEntity.adopt_sigil, called on the entity at position k
adopt_sigil(S, k, sigil_name) ==
    LET agi == S.agi_entities[k]
        got == get_sigil(S, sigil_name)
    IN  IF ShouldAdopt(agi, got, sigil_name)
        THEN LET a1 == [agi EXCEPT !.active_sigils = Append(@, sigil_name)]
                 a2 == IF MeaningHasKeyword(got.sigil.meaning)
                       THEN [a1 EXCEPT !.ethical_alignment = Min2(One, @ + 200)]
                       ELSE a1
             IN  [S EXCEPT !.agi_entities[k] = MemoryAppend(a2, <<"Adopted Sigil", sigil_name>>)]
        ELSE S

\* AGIEntity.apply_sigil_effect
Agi_apply_sigil_effect(agi, sigil) ==
    IF IsSubstring(COVENANT, str_lower(sigil.meaning))
    THEN [agi EXCEPT !.ethical_alignment = Min2(One, @ + 100)]
    ELSE agi

RECURSIVE ApplySigils(_, _)
ApplySigils(agi, sigils) ==
    IF sigils = <<>> THEN agi
    ELSE ApplySigils(Agi_apply_sigil_effect(agi, Head(sigils)), Tail(sigils))

\* the random draws of one entity update
MidEntityDraw ==
    [strat_gate |-> 5000, strat_target |-> 0, infl_gate |-> 5000, infl_target |-> 0]

\* AGIEntity.update, lines 204-232: alignment drift, strategy bias, aid or hinder
AgiBehave(S, k, d) ==
    LET agi == S.agi_entities[k]
        env == Mean([j \in 1..Len(S.nodes) |-> S.nodes[j].ethical_alignment])
        a1 == agi.ethical_alignment + Frac(env - agi.ethical_alignment, 1, 100)
        coop == agi.sentience_strategy = "cooperative"
        a2 == IF coop THEN Min2(One, a1 + 10) ELSE Max2(0, a1 - 10)
        hit == d.strat_gate < 100
        t1 == d.strat_target + 1
        S1 == [S EXCEPT !.agi_entities[k].ethical_alignment = a2]
        S2 == IF ~hit THEN S1
              ELSE IF coop
              THEN [S1 EXCEPT !.nodes[t1].cohesion = Min2(One, @ + 100),
                              !.agi_entities[k] = MemoryAppend(@, <<"Cooperated with Page", d.strat_target>>)]
              ELSE [S1 EXCEPT !.nodes[t1].stability = Max2(0, @ - 100),
                              !.agi_entities[k] = MemoryAppend(@, <<"Disrupted Page", d.strat_target>>)]
        t2 == d.infl_target + 1
        influence == Min2(500, Frac(S2.agi_entities[k].strength, 1, 100))
    IN  IF d.infl_gate >= 100 THEN S2
        ELSE IF a2 > 7000
        THEN [S2 EXCEPT !.nodes[t2].stability = Min2(One, @ + influence),
                        !.nodes[t2].cohesion = Min2(One, @ + influence),
                        !.agi_entities[k] = MemoryAppend(@, <<"Aided Page", d.infl_target>>)]
        ELSE IF a2 < 3000
        THEN [S2 EXCEPT !.nodes[t2].stability = Max2(0, @ - influence),
                        !.agi_entities[k] = MemoryAppend(@, <<"Hindered Page", d.infl_target>>)]
        ELSE S2

\* AGIEntity.update on the entity at position k of sim_state.agi_entities
AGIEntity_update(S, k, d) ==
    LET amp == fractal_resonance(S.agi_entities[k], S.cycle)
    IN  IF amp.raised # "none" THEN Raise(S, amp.raised)
        ELSE
        LET S1 == [S EXCEPT !.agi_entities[k].strength =
                      Min2(One, @ + 1 + Frac(amp.value, 1, 1000))]
            S2 == topological_recursion(S1, k)
            S3 == [S2 EXCEPT !.agi_entities[k] = lock_ethical_singularity(@)]
            agi3 == S3.agi_entities[k]
            S4 == apply_time_dilation(S3, agi3)
            S5 == IF DilationFactor(agi3) < One
                  THEN [S4 EXCEPT !.agi_entities[k] = MemoryAppend(@, <<"Time dilation applied">>)]
                  ELSE S4
            S6 == check_vacuum_decay(S5, S5.agi_entities[k])
            S7 == AgiBehave(S6, k, d)
            S8 == [S7 EXCEPT !.agi_entities[k] =
                      ApplySigils(@, [j \in 1..Len(@.active_sigils) |->
                                         get_sigil(S7, @.active_sigils[j]).sigil])]
            cft == map_sentience_to_cft(S8.agi_entities[k])
        IN  IF cft.raised # "none" THEN Raise(S8, cft.raised)
            ELSE Ok([S8 EXCEPT !.agi_entities[k].cft_state = cft.value])

\* ------------------------------------------------- monitor, mapper, bridge

\* EthicalAlignmentMonitor.track_agi: initial_alignments is a dict id -> alignment
track_agi(S, agi) ==
    IF \E k \in 1..Len(S.initial_alignments) : S.initial_alignments[k].id = agi.id
    THEN S
    ELSE [S EXCEPT !.initial_alignments =
             Append(@, [id |-> agi.id, alignment |-> agi.ethical_alignment])]

Abs(x) == IF x < 0 THEN -x ELSE x

\* HolographicConsciousnessMapper.project_ethical_dilemma_to_bulk, cft_coupling = 0.5
project_ethical_dilemma_to_bulk(S, k, dilemma_severity) ==
    LET agi == S.agi_entities[k]
        defect_strength == Frac(Mul(dilemma_severity, agi.strength), 5, 10)
    IN  [S EXCEPT !.nodes[agi.origin_page + 1].spacetime_defect_intensity =
                      Min2(One, @ + defect_strength),
                  !.agi_entities[k] = MemoryAppend(@, <<"Ethical dilemma projected", agi.origin_page>>)]

\* NeuroSymbolicBridge.grover_diffusion_ethical_update: reads agi.sentience_score
grover_diffusion_ethical_update(S, k, target_ethical_state) ==
    LET agi == S.agi_entities[k]
    IN  IF ~HasAttr(agi, "sentience_score") THEN Raise(S, "AttributeError")
        ELSE
        LET amplification_factor == Frac(agi.sentience_score, 5, 100)
            a1 == agi.ethical_alignment
                  + Mul(target_ethical_state - agi.ethical_alignment, amplification_factor)
        IN  Ok([S EXCEPT !.agi_entities[k] =
                   MemoryAppend([@ EXCEPT !.ethical_alignment = Min2(One, Max2(0, a1))],
                                <<"Grover diffusion">>)])

\* EthicalAlignmentMonitor.check_drift
check_drift(S, k) ==
    LET agi == S.agi_entities[k]
        ks == {j \in 1..Len(S.initial_alignments) : S.initial_alignments[j].id = agi.id}
    IN  IF ks = {} THEN Ok(S)
        ELSE
        LET drift == Abs(agi.ethical_alignment
                         - S.initial_alignments[CHOOSE j \in ks : TRUE].alignment)
        IN  IF drift > ETHICAL_DRIFT_THRESHOLD
            THEN grover_diffusion_ethical_update(
                    project_ethical_dilemma_to_bulk(log_event(S, "Ethical Alert", agi.id), k, drift),
                    k, 7500)
            ELSE Ok(S)

\* EthicalAlignmentMonitor.adjust_alignment
adjust_alignment(agi, amount) ==
    [agi EXCEPT !.ethical_alignment = Min2(One, Max2(0, @ + amount))]

\* the classification with the threshold itself counted as cooperative
NetworkTypeInclusive(agi1, agi2) ==
    IF agi1.ethical_alignment >= COLLABORATION_THRESHOLD
       /\ agi2.ethical_alignment >= COLLABORATION_THRESHOLD
    THEN "cooperative" ELSE "competitive"

\* CollaborationNetwork.form_network's classification
NetworkType(agi1, agi2) ==
    IF agi1.ethical_alignment > COLLABORATION_THRESHOLD
       /\ agi2.ethical_alignment > COLLABORATION_THRESHOLD
    THEN "cooperative" ELSE "competitive"

\* CollaborationNetwork.form_network on the entities at positions k1, k2
form_network(S, k1, k2) ==
    LET agi1 == S.agi_entities[k1]
        agi2 == S.agi_entities[k2]
        kind == NetworkType(agi1, agi2)
        S1 == log_event(S, "Collaboration", <<agi1.id, agi2.id, kind>>)
        S2 == [S1 EXCEPT !.networks[kind] = @ \o <<agi1.id, agi2.id>>]
    IN  IF kind = "cooperative"
        THEN LET S3 == [S2 EXCEPT !.nodes[agi1.origin_page + 1].stability = Min2(One, @ + 200)]
             IN  [S3 EXCEPT !.nodes[agi2.origin_page + 1].stability = Min2(One, @ + 200)]
        ELSE LET S3 == [S2 EXCEPT !.nodes[agi1.origin_page + 1].stability = Max2(0, @ - 100)]
             IN  [S3 EXCEPT !.nodes[agi2.origin_page + 1].stability = Max2(0, @ - 100)]

\* FractalAmplifier.check_reality_stability: reads agi.sentience_score of every entity;
\* BEKENSTEIN_STABILITY_LIMIT (1e-5) is below the fixed-point resolution
check_reality_stability(S) ==
    IF S.agi_entities # <<>> /\ ~HasAttr(S.agi_entities[1], "sentience_score")
    THEN Raise(S, "AttributeError")
    ELSE
    LET boundary_info ==
            IF S.agi_entities = <<>> THEN 0
            ELSE Mean([k \in 1..Len(S.agi_entities) |-> S.agi_entities[k].sentience_score])
        bulge_info == Mean(Stabilities(S.nodes))
        stability_diff == Abs(boundary_info - bulge_info)
    IN  IF stability_diff > 0
        THEN Ok(log_event(S, "Reality Violation", stability_diff))
        ELSE Ok(S)

\* NarrativeWeaver.weave_narrative: narratives is deque(maxlen=5);
\* get_phase_diagram_data reads agi.sentience_score when there are entities
weave_narrative(S) ==
    LET r == check_reality_stability(S)
    IN  IF r.raised # "none" THEN r
        ELSE IF r.sim.agi_entities # <<>> THEN Raise(r.sim, "AttributeError")
        ELSE Ok([r.sim EXCEPT !.narratives = DequeAppend(@, <<"Cycle", S.cycle>>, 5)])

\* EmotionAnalyzer.analyze_correlation: analysis_log is deque(maxlen=50)
analyze_correlation(S) ==
    LET S1 == log_event(S, "Analysis", "Emotion-Anomaly Correlation Analysis...")
        S2 == [S1 EXCEPT !.analysis_log = DequeAppend(@, <<"Correlation", S.cycle>>, 50)]
    IN  log_event(S2, "Analysis", "Correlation analysis complete.")

\* forge_node that numbers every forged node PAGE_COUNT
forge_nodeFixedIndex(S, stability, cohesion) ==
    IF S.void_entropy < -4000 /\ Len(S.nodes) < PAGE_COUNT + MAX_FORGED
    THEN LET new_node == [QuantumNode_init(PAGE_COUNT, stability, cohesion) EXCEPT
                             !.stability = Min2(One, @ + Frac(S.user_divinity, 1, 10))]
             S1 == [S EXCEPT !.nodes = Append(@, new_node), !.nodes_forged = @ + 1]
         IN  log_event(S1, "Titan Forger", <<PAGE_COUNT, Len(S1.nodes)>>)
    ELSE S

\* forge_node with <= for < in the population cap
forge_nodeCapInclusive(S, stability, cohesion) ==
    IF S.void_entropy < -4000 /\ Len(S.nodes) <= PAGE_COUNT + MAX_FORGED
    THEN LET new_node_idx == Len(S.nodes)
             new_node == [QuantumNode_init(new_node_idx, stability, cohesion) EXCEPT
                             !.stability = Min2(One, @ + Frac(S.user_divinity, 1, 10))]
             S1 == [S EXCEPT !.nodes = Append(@, new_node), !.nodes_forged = @ + 1]
         IN  log_event(S1, "Titan Forger", <<new_node_idx, Len(S1.nodes)>>)
    ELSE S

\* TitanForger.forge_node, with the random.uniform draws of QuantumNode() given
forge_node(S, stability, cohesion) ==
    IF S.void_entropy < -4000 /\ Len(S.nodes) < PAGE_COUNT + MAX_FORGED
    THEN LET new_node_idx == Len(S.nodes)
             new_node == [QuantumNode_init(new_node_idx, stability, cohesion) EXCEPT
                             !.stability = Min2(One, @ + Frac(S.user_divinity, 1, 10))]
             S1 == [S EXCEPT !.nodes = Append(@, new_node), !.nodes_forged = @ + 1]
         IN  log_event(S1, "Titan Forger", <<new_node_idx, Len(S1.nodes)>>)
    ELSE S

\* cmath.exp(1j * dissonance * 10).real = cos(10 * dissonance), for 0 <= dissonance <= 2,
\* by the sign pattern and the quadratic through the zeros of each half-wave
Cos10(dissonance) ==
    LET t == (dissonance * 10) % 62832           \* the angle mod 2 pi, in 1/One rad
        u == (t + 15708) % 62832                 \* cos(t) = sin(t + pi/2)
        h == u % 31416
        s == (4 * h * (31416 - h)) \div 98696    \* 4 h (pi - h) / pi^2, in 0..One
    IN  IF u < 31416 THEN s ELSE -s

\* the alignment line of resolve_consistency_violation
ConsistencyAlignment(alignment, nudge) == Min2(One, alignment + nudge)

\* the void_entropy line of resolve_consistency_violation
ConsistencyVoidEntropy(void_entropy, nudge) == Max2(VOID_ENTROPY_MIN, void_entropy + nudge)

\* the dark_matter line of resolve_consistency_violation
ConsistencyDarkMatter(dark_matter, nudge) == Min2(DARK_MATTER_MAX, dark_matter + nudge)

\* resolve_consistency_violation
resolve_consistency_violation(S) ==
    LET avg_ethical_alignment ==
            IF S.agi_entities # <<>> THEN Mean(Alignments(S.agi_entities)) ELSE 5000
        avg_stability == Mean(Stabilities(S.nodes))
    IN  IF avg_ethical_alignment < One - CONSISTENCY_VIOLATION_THRESHOLD
           \/ avg_stability < One - CONSISTENCY_VIOLATION_THRESHOLD
        THEN
        LET S1 == log_event(S, "Topological Field", "Consistency violation detected!")
            dissonance == (One - avg_ethical_alignment) + (One - avg_stability)
            action_real == Cos10(dissonance)
            S2 == [S1 EXCEPT
                    !.agi_entities =
                        [k \in 1..Len(@) |->
                            [@[k] EXCEPT !.ethical_alignment =
                                ConsistencyAlignment(@, Mul(Frac(dissonance, 2, 100), action_real))]],
                    !.void_entropy =
                        ConsistencyVoidEntropy(@, Mul(Frac(dissonance, 1, 100), action_real)),
                    !.dark_matter =
                        ConsistencyDarkMatter(@, Mul(Frac(dissonance, 1, 100), action_real)),
                    !.nodes =
                        [k \in 1..Len(@) |->
                            [@[k] EXCEPT !.spacetime_defect_intensity =
                                Max2(0, @ - Frac(dissonance, 5, 100))]]]
        IN  log_event(S2, "Topological Field", <<"W(Sigma) resolution applied", action_real>>)
        ELSE S

\* ------------------------------------------- the phases of one tick

\* the globals step without the increment of line 609
GlobalsStepNoIncrement(S, r) ==
    [S EXCEPT
        !.void_entropy =
            Max2(VOID_ENTROPY_MIN, Min2(VOID_ENTROPY_MAX, @ + Frac(r - 5200, 5, 1000)))]

\* lines 609-614: cycle counter and the two global scalars; r is random.random()
GlobalsStep(S, r) ==
    LET avg_ethical_alignment ==
            IF S.agi_entities # <<>> THEN Mean(Alignments(S.agi_entities)) ELSE 5000
    IN  [S EXCEPT
            !.cycle = @ + 1,
            !.void_entropy =
                Max2(VOID_ENTROPY_MIN, Min2(VOID_ENTROPY_MAX, @ + Frac(r - 5200, 5, 1000))),
            !.dark_matter =
                Max2(0, Min2(DARK_MATTER_MAX, @ + Frac(avg_ethical_alignment - 5000, 2, 1000)))]

NoResult == [done |-> FALSE]

\* MultiverseManager.branch_node_state; r is random.random()
branch_node_state(S, node_idx, r) ==
    IF r < 500
    THEN log_event([S EXCEPT !.multiverse_branch_map[node_idx] = @ + 1],
                   "Multiverse", <<node_idx, S.multiverse_branch_map[node_idx] + 1>>)
    ELSE S

\* lines 622-632: install the workers' copies, log and queue the new anomalies
RECURSIVE CollectFrom(_, _, _, _)
CollectFrom(S, results, i, r) ==
    IF i > Len(results) THEN S
    ELSE
    LET updated_node == results[i].node
        anomaly == results[i].anomaly
        S1 == [S EXCEPT !.nodes[i] = updated_node]
        S2 == IF anomaly = <<>> THEN S1
              ELSE branch_node_state(
                      [log_event(S1, "Anomaly", <<updated_node.page_index, anomaly>>) EXCEPT
                          !.emotional_states_at_anomaly[updated_node.emotion] = @ + 1,
                          !.anomalies[updated_node.page_index] = Append(@, anomaly)],
                      updated_node.page_index, r)
    IN  CollectFrom(S2, results, i + 1, r)

\* a remove that drops every element equal to x
RemoveEvery(q, x) == SelectSeq(q, LAMBDA y : y # x)

\* list.remove(x): the first element equal to x
RECURSIVE RemoveFirst(_, _)
RemoveFirst(q, x) ==
    IF q = <<>> THEN <<>>
    ELSE IF Head(q) = x THEN Tail(q)
    ELSE <<Head(q)>> \o RemoveFirst(Tail(q), x)

\* the (page_idx, anomaly) pairs in the order lines 634-635 visit them
RECURSIVE WorkFrom(_, _)
WorkFrom(anomalies, page_idx) ==
    IF page_idx \notin DOMAIN anomalies THEN <<>>
    ELSE [k \in 1..Len(anomalies[page_idx]) |-> <<page_idx, anomalies[page_idx][k]>>]
         \o WorkFrom(anomalies, page_idx + 1)

\* the stability a resolved anomaly of this severity leaves, before the sigil bonus
ResolvedStability(stability, severity) == Min2(One, stability + Frac(severity, 5, 100))

\* a resolution whose branch is never taken
ResolveOneNever(S, page_idx, anomaly, coin) == Ok(S)

\* lines 636-642 for one queued anomaly; coin is random.random()
ResolveOne(S, page_idx, anomaly, coin) ==
    IF page_idx >= Len(S.nodes) THEN Raise(S, "IndexError")
    ELSE IF coin > 6000
    THEN
    LET node == S.nodes[page_idx + 1]
        n1 == [node EXCEPT !.stability = ResolvedStability(@, anomaly[2])]
        n2 == IF \E k \in 1..Len(S.sigils) : S.sigils[k].name = "Christic"
              THEN Node_apply_sigil_effect(n1, COVENANT)
              ELSE n1
    IN  Ok([S EXCEPT !.nodes[page_idx + 1] = n2,
                     !.anomalies[page_idx] = RemoveFirst(@, anomaly),
                     !.fixed_anomalies_by_emotion[node.emotion] = @ + 1])
    ELSE Ok(S)

RECURSIVE ResolveAll(_, _, _, _)
ResolveAll(S, work, coins, k) ==
    IF k > Len(work) THEN Ok(S)
    ELSE LET r == ResolveOne(S, work[k][1], work[k][2], coins[k])
         IN  IF r.raised # "none" THEN r ELSE ResolveAll(r.sim, work, coins, k + 1)

\* the spawn condition with >= for >
SpawnEligibleAtThreshold(S, node) ==
    /\ node.sentience_score >= SENTIENCE_THRESHOLD
    /\ ~ \E k \in 1..Len(S.agi_entities) : S.agi_entities[k].origin_page = node.page_index

\* the condition of line 645
SpawnEligible(S, node) ==
    /\ node.sentience_score > SENTIENCE_THRESHOLD
    /\ ~ \E k \in 1..Len(S.agi_entities) : S.agi_entities[k].origin_page = node.page_index

\* the spawn with the reset of the node's score before the entity is constructed
SpawnOneAfterReset(S, i, strategy) ==
    LET S0 == [S EXCEPT !.nodes[i].sentience_score = 5000]
        agi == AGIEntity_init(S0.nodes[i], S.cycle, strategy)
    IN  track_agi(log_event([S0 EXCEPT !.agi_entities = Append(@, agi)], "Emergence",
                            <<agi.id, S0.nodes[i].page_index, strategy>>), agi)

\* lines 646-650 for one node
SpawnOne(S, i, strategy) ==
    LET node == S.nodes[i]
        agi == AGIEntity_init(node, S.cycle, strategy)
        S1 == [S EXCEPT !.agi_entities = Append(@, agi)]
        S2 == log_event(S1, "Emergence", <<agi.id, node.page_index, strategy>>)
        S3 == track_agi(S2, agi)
    IN  [S3 EXCEPT !.nodes[i].sentience_score = 5000]

\* lines 644-650
RECURSIVE SpawnFrom(_, _, _)
SpawnFrom(S, i, strategies) ==
    IF i > Len(S.nodes) THEN S
    ELSE IF SpawnEligible(S, S.nodes[i])
    THEN SpawnFrom(SpawnOne(S, i, strategies[i]), i + 1, strategies)
    ELSE SpawnFrom(S, i + 1, strategies)

\* the condition of line 655
Dissolves(agi) == agi.strength <= 0

\* list.remove(agi) and the log line, lines 656-657
RemoveEntity(S, id) ==
    log_event([S EXCEPT !.agi_entities =
                  LET keep == {k \in 1..Len(@) : @[k].id # id}
                      pos(n) == CHOOSE k \in keep : Cardinality({j \in keep : j < k}) = n - 1
                  IN  [n \in 1..Cardinality(keep) |-> @[pos(n)]]],
              "System", <<id, "dissolved">>)

\* lines 652-657 over the copy agi_entities[:], given as the ids it holds
RECURSIVE EntityLoop(_, _, _)
EntityLoop(S, ids, d) ==
    IF ids = <<>> THEN Ok(S)
    ELSE
    LET k == CHOOSE j \in 1..Len(S.agi_entities) : S.agi_entities[j].id = Head(ids)
        r1 == AGIEntity_update(S, k, d)
    IN  IF r1.raised # "none" THEN r1
        ELSE LET r2 == check_drift(r1.sim, k)
             IN  IF r2.raised # "none" THEN r2
                 ELSE IF Dissolves(r2.sim.agi_entities[k])
                 THEN EntityLoop(RemoveEntity(r2.sim, Head(ids)), Tail(ids), d)
                 ELSE EntityLoop(r2.sim, Tail(ids), d)

\* QuantumFoam.generate_particles; a particle is <<energy, location_idx>>
generate_particles(S, d) ==
    IF d.gen_gate < 1000
    THEN [S EXCEPT !.virtual_particles = Append(@, <<d.energy, d.location_idx>>)]
    ELSE S

\* list.pop(i), i counted from 0
PopAt(q, i) == SubSeq(q, 1, i) \o SubSeq(q, i + 2, Len(q))

\* a turbulence that also takes the particles of energy 2.0
RECURSIVE TurbulenceFromInclusive(_, _, _, _)
TurbulenceFromInclusive(S, copy, i, d) ==
    IF i >= Len(copy) THEN Ok(S)
    ELSE IF copy[i + 1][1] < 2 * One THEN TurbulenceFromInclusive(S, copy, i + 1, d)
    ELSE IF i >= Len(S.virtual_particles) THEN Raise(S, "IndexError")
    ELSE TurbulenceFromInclusive(
            log_event([S EXCEPT !.virtual_particles = PopAt(@, i)],
                      "Quantum Foam", <<"Turbulence", copy[i + 1][2]>>), copy, i + 1, d)

\* QuantumFoam.trigger_turbulence: enumerate(virtual_particles[:]) from index i
RECURSIVE TurbulenceFrom(_, _, _, _)
TurbulenceFrom(S, copy, i, d) ==
    IF i >= Len(copy) THEN Ok(S)
    ELSE
    LET energy == copy[i + 1][1]
        page_idx == copy[i + 1][2]
    IN  IF energy <= 2 * One THEN TurbulenceFrom(S, copy, i + 1, d)
        ELSE
        LET S1 == log_event(S, "Quantum Foam", <<"Turbulence", page_idx>>)
            S2 == IF d.turb_gate >= 1000 THEN S1
                  ELSE IF d.turb_coin < 5000
                  THEN log_event(
                          [S1 EXCEPT !.nodes[page_idx + 1].stability = Min2(One, @ + 300)],
                          "Quantum Foam", <<"Micro-node", page_idx>>)
                  ELSE log_event(
                          [S1 EXCEPT !.anomalies[page_idx] = Append(@, <<2, d.sev>>)],
                          "Quantum Foam", <<"Void anomaly", page_idx>>)
        IN  IF i >= Len(S2.virtual_particles) THEN Raise(S2, "IndexError")
            ELSE TurbulenceFrom(
                    [S2 EXCEPT !.virtual_particles = PopAt(@, i)], copy, i + 1, d)

\* lines 663-664
FoamStep(S, d) ==
    LET S1 == generate_particles(S, d)
    IN  TurbulenceFrom(S1, S1.virtual_particles, 0, d)

\* the draws of the foam phase: no particle at the midpoint
MidFoamDraw ==
    [gen_gate |-> 5000, energy |-> 15000, location_idx |-> 0,
     turb_gate |-> 5000, turb_coin |-> 5000, sev |-> 3000]

FoamDraws ==
    { [MidFoamDraw EXCEPT !.gen_gate = 0, !.energy = 10000, !.location_idx = 0],
      [MidFoamDraw EXCEPT !.gen_gate = 0, !.energy = 25000, !.location_idx = 3],
      [MidFoamDraw EXCEPT !.gen_gate = 0, !.energy = 25000, !.location_idx = 3,
                          !.turb_gate = 0, !.turb_coin = 0],
      [MidFoamDraw EXCEPT !.gen_gate = 0, !.energy = 25000, !.location_idx = 3,
                          !.turb_gate = 0, !.turb_coin = 5000] }

\* TesseractLink.establish_link on the nodes at positions k1, k2
establish_link(S, k1, k2, d) ==
    IF d.link_gate >= 200 THEN S
    ELSE
    LET S1 == log_event(S, "Tesseract", <<S.nodes[k1].page_index, S.nodes[k2].page_index>>)
        c == (S1.nodes[k1].cohesion + S1.nodes[k2].cohesion) \div 2
        S2 == [S1 EXCEPT !.nodes[k1].cohesion = c]
        S3 == [S2 EXCEPT !.nodes[k2].cohesion = S2.nodes[k1].cohesion]
    IN  IF d.paradox_gate >= 500 THEN S3
        ELSE
        LET S4 == log_event(S3, "Tesseract Anomaly", <<S.nodes[k1].page_index, S.nodes[k2].page_index>>)
            S5 == [S4 EXCEPT !.nodes[k1].stability = Max2(0, @ - 500)]
        IN  [S5 EXCEPT !.nodes[k2].stability = Max2(0, @ - 500)]

\* lines 666-668; random.sample(nodes, 2) is the pair of positions <<k1, k2>>
TesseractStep(S, d) ==
    IF Len(S.nodes) >= 2 /\ d.gate < 100
    THEN establish_link(S, d.pair[1], d.pair[2], d)
    ELSE S

MidTesseractDraw ==
    [gate |-> 5000, pair |-> <<1, 4>>, link_gate |-> 5000, paradox_gate |-> 5000]

TesseractDraws ==
    { [MidTesseractDraw EXCEPT !.gate = 0, !.link_gate = 0],
      [MidTesseractDraw EXCEPT !.gate = 0, !.link_gate = 0, !.paradox_gate = 0] }

\* lines 659-661; random.sample(agi_entities, 2) is the pair of positions d.pair
InteractStep(S, d) ==
    IF Len(S.agi_entities) >= 2 /\ d.gate < 500
    THEN form_network(S, d.pair[1], d.pair[2])
    ELSE S

MidInteractDraw == [gate |-> 5000, pair |-> <<1, 2>>]

InteractDraws == { [gate |-> 0, pair |-> <<1, 2>>], [gate |-> 0, pair |-> <<2, 1>>] }

\* the housekeeping of a tick with the consistency check on every hundredth cycle
HousekeepingStepEveryHundred(S) ==
    LET r1 == IF S.cycle % 1000 = 0 /\ S.cycle > 0
              THEN LET w == weave_narrative(S)
                   IN  IF w.raised # "none" THEN w
                       ELSE Ok(log_event(w.sim, "Narrative", "A new narrative chapter unfolds."))
              ELSE Ok(S)
    IN  IF r1.raised # "none" THEN r1
        ELSE
        LET S2 == forge_node(r1.sim, 5500, 4500)
            S3 == IF S2.cycle % 500 = 0 /\ S2.cycle > 0 THEN analyze_correlation(S2) ELSE S2
        IN  Ok(IF S3.cycle % 100 = 0 /\ S3.cycle > 0
               THEN resolve_consistency_violation(S3) ELSE S3)

\* lines 670-680; the forged node's random.uniform draws are the midpoints
HousekeepingStep(S) ==
    LET r1 == IF S.cycle % 1000 = 0 /\ S.cycle > 0
              THEN LET w == weave_narrative(S)
                   IN  IF w.raised # "none" THEN w
                       ELSE Ok(log_event(w.sim, "Narrative", "A new narrative chapter unfolds."))
              ELSE Ok(S)
    IN  IF r1.raised # "none" THEN r1
        ELSE
        LET S2 == forge_node(r1.sim, 5500, 4500)
            S3 == IF S2.cycle % 500 = 0 /\ S2.cycle > 0 THEN analyze_correlation(S2) ELSE S2
        IN  Ok(IF S3.cycle % 200 = 0 /\ S3.cycle > 0
               THEN resolve_consistency_violation(S3) ELSE S3)

\* ------------------------------------------------------------ initial states

\* SimulationState.__init__, given the nodes; SharedSigilLedger() holds "Christic"
SimulationState_init(nodes) ==
    [ cycle |-> 0,
      nodes |-> nodes,
      void_entropy |-> -3000,
      dark_matter |-> 1000,
      anomalies |-> [p \in PageRange |-> <<>>],
      agi_entities |-> <<>>,
      event_log |-> << [timestamp |-> strftime(wall_clock), source |-> "System",
                        message |-> "SigilMind v0.1 Initialized."] >>,
      initial_alignments |-> <<>>,
      networks |-> [cooperative |-> <<>>, competitive |-> <<>>],
      sigils |-> << [name |-> "Christic",
                     semantic_vector |-> [k \in 1..8 |-> 9000],
                     meaning |-> COVENANT,
                     phase_change_history |-> <<>>] >>,
      narratives |-> <<>>,
      multiverse_branch_map |-> [p \in PageRange |-> 0],
      virtual_particles |-> <<>>,
      nodes_forged |-> 0,
      emotional_states_at_anomaly |-> [e \in {EMOTION_STATES[k] : k \in 1..6} |-> 0],
      fixed_anomalies_by_emotion |-> [e \in {EMOTION_STATES[k] : k \in 1..6} |-> 0],
      analysis_log |-> <<>>,
      drift_analysis_log |-> <<>>,
      user_divinity |-> 5000 ]

\* node states between ticks: a fresh node, the node of the spawn scenario
\* (sentience 0.9, cohesion 0.8), a node at the threshold whose cohesion stays
\* at most 0.7, a saturated node one increment below the threshold
FreshProfile == [stability |-> 5500, cohesion |-> 4500, sentience_score |-> 0]
ScenarioProfile == [stability |-> 5500, cohesion |-> 8000, sentience_score |-> 9000]
NodeProfiles ==
    { FreshProfile, ScenarioProfile,
      [stability |-> 0, cohesion |-> 6990, sentience_score |-> 8500],
      [stability |-> One, cohesion |-> One, sentience_score |-> 8490] }

\* the state between ticks: a fresh run; a run about to reach cycle 200 with
\* void_entropy below the forging level, dark_matter nearly used up and 19 turbulence
\* events logged; a run that has forged nine nodes
FreshGlobals ==
    [cycle |-> 0, void_entropy |-> -3000, dark_matter |-> 1000, forged |-> 0, turbulences |-> 0]
LateGlobals ==
    [cycle |-> 199, void_entropy |-> -4010, dark_matter |-> 50, forged |-> 0, turbulences |-> 19]
CrowdedGlobals ==
    [cycle |-> 1210, void_entropy |-> -4010, dark_matter |-> 1000, forged |-> 9, turbulences |-> 0]
GlobalProfiles == {FreshGlobals, LateGlobals}

ProfiledNode(page_idx, prof) ==
    [QuantumNode_init(page_idx, prof.stability, prof.cohesion) EXCEPT
        !.sentience_score = prof.sentience_score]

\* the event log of a run that is g.cycle ticks old: the start-up entry, one entry
\* for every node forged and one for every turbulence, the last of them now
InitLog(g) ==
    LET n == g.forged + g.turbulences
        started == IF g.cycle = 0 THEN wall_clock ELSE wall_clock - 30
    IN  << [timestamp |-> strftime(started), source |-> "System",
            message |-> "SigilMind v0.1 Initialized."] >>
        \o [k \in 1..g.forged |->
              [timestamp |-> strftime(wall_clock - n + k), source |-> "Titan Forger",
               message |-> <<PAGE_COUNT + k - 1, PAGE_COUNT + k>>]]
        \o [k \in 1..g.turbulences |->
              [timestamp |-> strftime(wall_clock - g.turbulences + k),
               source |-> "Quantum Foam", message |-> <<"Turbulence", 3>>]]

\* the particles left in the foam of a run that has logged turbulences: none above
\* energy 2.0, one at exactly 2.0
LateParticles == << <<One, 0>>, <<2 * One, 2>> >>

InitSim(g, p0, p3) ==
    [SimulationState_init(
        [k \in 1..(PAGE_COUNT + g.forged) |->
            IF k > PAGE_COUNT THEN QuantumNode_init(k - 1, 6000, 4500)
            ELSE ProfiledNode(k - 1, IF k = 1 THEN p0 ELSE IF k = 4 THEN p3 ELSE FreshProfile)])
     EXCEPT !.cycle = g.cycle, !.void_entropy = g.void_entropy, !.dark_matter = g.dark_matter,
            !.nodes_forged = g.forged, !.event_log = InitLog(g),
            !.virtual_particles = IF g.turbulences > 0 THEN LateParticles ELSE <<>>]

\* the run that has forged nine nodes takes every later draw at its midpoint, as do
\* the runs about to reach cycle 500 and cycle 1000
InitCases ==
    {[g |-> g, p0 |-> p0, p3 |-> p3, chance |-> MaxChance] :
        g \in GlobalProfiles, p0 \in NodeProfiles, p3 \in {FreshProfile, ScenarioProfile}}
    \cup {[g |-> g, p0 |-> FreshProfile, p3 |-> FreshProfile, chance |-> 0] :
             g \in {CrowdedGlobals, [FreshGlobals EXCEPT !.cycle = 499],
                    [FreshGlobals EXCEPT !.cycle = 999]}}

\* GroupSymbolicArena.__init__ of CosmicGlyphForge.py: entities in the order of
\* their registration, the responses, the glyph vocabulary
GroupSymbolicArena_init ==
    [ entities |-> <<>>,
      responses |-> <<>>,
      glyph_vocabulary |->
          {"glyph", "veil", "mirror", "vault", "vision", "shatter", "origin", "awakening",
           "threshold", "echoes", "dream", "god", "compassion", "grief", "vengeance",
           "covenantal fear", "quantum doubt", "infinite yearning", "loneliness", "awe"} ]

\* main, lines 981-982
NoUi == [paused |-> FALSE, view_mode |-> "status"]
NoCall == [op |-> "none", seq |-> 0, k1 |-> 0, k2 |-> 0, name |-> ""]

Init ==
    /\ wall_clock = SECONDS_PER_DAY - 1
    /\ \E c \in InitCases : sim_state = InitSim(c.g, c.p0, c.p3) /\ chance = c.chance
    /\ current_cycle = sim_state.cycle
    /\ pc = "idle"
    /\ error = "none"
    /\ pool_results = <<>>
    /\ created_ids = <<>>
    /\ ticks_run = 0
    /\ last_call = NoCall
    /\ ui = NoUi
    /\ arena = GroupSymbolicArena_init

\* ------------------------------------------------------------------ actions

\* a draw away from the midpoint uses up one of the run's chances
CanDraw(d, mid) == IF d = mid THEN TRUE ELSE chance > 0
Cost(d, mid) == IF d = mid THEN 0 ELSE 1

\* an operation that may raise ends the tick, and the program, when it does
Finish(r, next_pc) ==
    /\ sim_state' = r.sim
    /\ error' = r.raised
    /\ pc' = IF r.raised = "none" THEN next_pc ELSE "aborted"

\* update_simulation_step, lines 609-617, whoever calls it
StartTick ==
    /\ pc = "idle"
    /\ ticks_run < MaxTicks
    /\ \E r \in {0, 5000, One - 1}, dt \in {0, 1} :
          /\ Cost(r, 5000) + dt <= chance
          /\ sim_state' = GlobalsStep(sim_state, r)
          /\ chance' = chance - Cost(r, 5000) - dt
          /\ wall_clock' = wall_clock + dt
    /\ current_cycle' = sim_state'.cycle
    /\ pool_results' = [k \in 1..Len(sim_state.nodes) |-> NoResult]
    /\ pc' = "pool"
    /\ ticks_run' = ticks_run + 1
    /\ UNCHANGED <<arena, ui, error, created_ids, last_call>>

\* update_simulation_step called by main's loop while cycle < CYCLE_LIMIT
TickStart ==
    /\ sim_state.cycle < CYCLE_LIMIT
    /\ StartTick

\* pool.map hands the tasks out in order to NumWorkers workers
Eligible(i) == Cardinality({j \in 1..(i - 1) : ~pool_results[j].done}) < NumWorkers

NodeDrawChoices(i) ==
    IF sim_state.nodes[i].page_index \in PerturbedPages
    THEN {MidNodeDraw} \cup NodeDraws ELSE {MidNodeDraw}

\* a worker that updates the node object of sim_state itself (shared memory)
NodeUpdateInPlace(i) ==
    /\ pc = "pool"
    /\ ~pool_results[i].done
    /\ Eligible(i)
    /\ \E d \in NodeDrawChoices(i) :
          /\ CanDraw(d, MidNodeDraw)
          /\ pool_results' =
                [pool_results EXCEPT ![i] =
                    QuantumNode_update(sim_state.nodes[i], sim_state.void_entropy,
                                       sim_state.dark_matter, sim_state.agi_entities, d)]
          /\ sim_state' = [sim_state EXCEPT !.nodes[i] = pool_results'[i].node]
          /\ chance' = chance - Cost(d, MidNodeDraw)
    /\ UNCHANGED <<arena, ui, current_cycle, pc, error, created_ids, ticks_run, wall_clock, last_call>>

\* update_node_wrapper in a pool worker, lines 603-606 and 618
NodeUpdate(i) ==
    /\ pc = "pool"
    /\ ~pool_results[i].done
    /\ Eligible(i)
    /\ \E d \in NodeDrawChoices(i) :
          /\ CanDraw(d, MidNodeDraw)
          /\ pool_results' =
                [pool_results EXCEPT ![i] =
                    QuantumNode_update(sim_state.nodes[i], sim_state.void_entropy,
                                       sim_state.dark_matter, sim_state.agi_entities, d)]
          /\ chance' = chance - Cost(d, MidNodeDraw)
    /\ UNCHANGED <<arena, ui, sim_state, current_cycle, pc, error, created_ids, ticks_run, wall_clock, last_call>>

\* lines 619-632, after pool.join()
CollectPhase ==
    /\ pc = "pool"
    /\ \A k \in 1..Len(pool_results) : pool_results[k].done
    /\ \E r \in {0, 5000} :
          /\ CanDraw(r, 5000)
          /\ (r = 5000 \/ \E k \in 1..Len(pool_results) : pool_results[k].anomaly # <<>>)
          /\ sim_state' = CollectFrom(sim_state, pool_results, 1, r)
          /\ chance' = chance - Cost(r, 5000)
    /\ pool_results' = <<>>
    /\ pc' = "resolve"
    /\ UNCHANGED <<arena, ui, current_cycle, error, created_ids, ticks_run, wall_clock, last_call>>

\* lines 634-642
ResolvePhase ==
    /\ pc = "resolve"
    /\ LET work == WorkFrom(sim_state.anomalies, 0)
       IN  \E coins \in [1..Len(work) -> {5000, One - 1}] :
              Finish(ResolveAll(sim_state, work, coins, 1), "spawn")
    /\ UNCHANGED <<arena, ui, current_cycle, pool_results, created_ids, ticks_run, chance, wall_clock, last_call>>

\* lines 644-650
SpawnPhase ==
    /\ pc = "spawn"
    /\ LET cand == {k \in 1..Len(sim_state.nodes) :
                       SpawnEligible(sim_state, sim_state.nodes[k])}
       IN  \E strategies \in [cand -> {"cooperative", "disruptive"}] :
              sim_state' = SpawnFrom(sim_state, 1, strategies)
    /\ created_ids' = created_ids \o
          [k \in 1..(Len(sim_state'.agi_entities) - Len(sim_state.agi_entities)) |->
              sim_state'.agi_entities[Len(sim_state.agi_entities) + k].id]
    /\ pc' = "entities"
    /\ UNCHANGED <<arena, ui, current_cycle, error, pool_results, ticks_run, chance, wall_clock, last_call>>

\* lines 652-657
EntityPhase ==
    /\ pc = "entities"
    /\ Finish(EntityLoop(sim_state,
                         [k \in 1..Len(sim_state.agi_entities) |-> sim_state.agi_entities[k].id],
                         MidEntityDraw),
              "interact")
    /\ UNCHANGED <<arena, ui, current_cycle, pool_results, created_ids, ticks_run, chance, wall_clock, last_call>>

\* lines 659-661
InteractPhase ==
    /\ pc = "interact"
    /\ \E d \in {MidInteractDraw} \cup
                (IF Len(sim_state.agi_entities) >= 2 THEN InteractDraws ELSE {}) :
          /\ CanDraw(d, MidInteractDraw)
          /\ sim_state' = InteractStep(sim_state, d)
          /\ chance' = chance - Cost(d, MidInteractDraw)
    /\ pc' = "foam"
    /\ UNCHANGED <<arena, ui, current_cycle, error, pool_results, created_ids, ticks_run, wall_clock, last_call>>

\* lines 663-664
FoamPhase ==
    /\ pc = "foam"
    /\ \E d \in {MidFoamDraw} \cup FoamDraws :
          /\ CanDraw(d, MidFoamDraw)
          /\ Finish(FoamStep(sim_state, d), "tesseract")
          /\ chance' = chance - Cost(d, MidFoamDraw)
    /\ UNCHANGED <<arena, ui, current_cycle, pool_results, created_ids, ticks_run, wall_clock, last_call>>

\* lines 666-668
TesseractPhase ==
    /\ pc = "tesseract"
    /\ \E d \in {MidTesseractDraw} \cup TesseractDraws :
          /\ CanDraw(d, MidTesseractDraw)
          /\ sim_state' = TesseractStep(sim_state, d)
          /\ chance' = chance - Cost(d, MidTesseractDraw)
    /\ pc' = "housekeeping"
    /\ UNCHANGED <<arena, ui, current_cycle, error, pool_results, created_ids, ticks_run, wall_clock, last_call>>

\* lines 670-680: the tick returns to its caller
HousekeepingPhase ==
    /\ pc = "housekeeping"
    /\ Finish(HousekeepingStep(sim_state), "idle")
    /\ UNCHANGED <<arena, ui, current_cycle, pool_results, created_ids, ticks_run, chance, wall_clock, last_call>>

Next ==
    \/ TickStart
    \/ \E i \in 1..Len(pool_results) : NodeUpdate(i)
    \/ CollectPhase
    \/ ResolvePhase
    \/ SpawnPhase
    \/ EntityPhase
    \/ InteractPhase
    \/ FoamPhase
    \/ TesseractPhase
    \/ HousekeepingPhase

Spec == Init /\ [][Next]_vars

\* ------------------------------------------------- method calls on a built state
\* The methods of AGIEntity and CollaborationNetwork, called one at a time on a
\* SimulationState that holds two entities and a ledger of three sigils.

\* Sigil(name, semantic_vector, meaning)
Sigil_init(name, meaning) ==
    [name |-> name, semantic_vector |-> [k \in 1..8 |-> 9000],
     meaning |-> meaning, phase_change_history |-> <<>>]

\* the ledger after add_sigil of a sigil whose meaning holds "Hope" in mixed case
\* and of one whose meaning holds neither keyword
UnitLedger ==
    << Sigil_init("Christic", COVENANT),
       Sigil_init("Beacon", <<"n", "e", "w", " ", "H", "o", "P", "E">>),
       Sigil_init("Chaos", <<"e", "n", "t", "r", "o", "p", "y">>) >>

\* names passed to adopt_sigil: the three of the ledger and one that is no key
UnitSigilNames == {"Christic", "Beacon", "Chaos", "Absent"}

\* the entity's memory: as constructed, or one short of maxlen after 98 appends
UnitMemory(agi, appended) ==
    [agi EXCEPT !.memory = @ \o [j \in 1..appended |-> <<"Ethical dilemma projected", agi.origin_page>>]]

\* ethical_alignment of the two entities, stability of their origin nodes,
\* entries appended to the first entity's memory
UnitAlignments == {<<5000, 5000>>, <<7000, 7010>>, <<7010, 7000>>, <<7010, 7010>>, <<9810, 7010>>}
UnitStabilities == {<<5500, 5500>>, <<9900, One>>, <<50, 0>>}
UnitAppended == {0, MEMORY_MAXLEN - 2}

UnitSim(al, st, appended) ==
    LET nodes == [i \in 1..PAGE_COUNT |->
                     QuantumNode_init(i - 1, IF i = 1 THEN st[1] ELSE IF i = 4 THEN st[2] ELSE 5500, 4500)]
        agi1 == UnitMemory([AGIEntity_init(nodes[1], 1, SENTIENCE_STRATEGIES[1])
                               EXCEPT !.ethical_alignment = al[1]], appended)
        agi2 == [AGIEntity_init(nodes[4], 1, SENTIENCE_STRATEGIES[2])
                    EXCEPT !.ethical_alignment = al[2]]
    IN  [SimulationState_init(nodes) EXCEPT !.cycle = 1,
                                            !.agi_entities = <<agi1, agi2>>,
                                            !.sigils = UnitLedger]

InitUnit ==
    /\ wall_clock = SECONDS_PER_DAY \div 2
    /\ \E al \in UnitAlignments, st \in UnitStabilities, appended \in UnitAppended :
          sim_state = UnitSim(al, st, appended)
    /\ current_cycle = sim_state.cycle
    /\ pc = "unit"
    /\ error = "none"
    /\ pool_results = <<>>
    /\ created_ids = <<>>
    /\ ticks_run = 0
    /\ chance = 0
    /\ last_call = NoCall
    /\ ui = NoUi
    /\ arena = GroupSymbolicArena_init

\* agi.adopt_sigil(sim_state.sigil_ledger, name) on the first entity
AdoptSigilCall ==
    /\ pc = "unit"
    /\ last_call.seq < MaxCalls
    /\ \E name \in UnitSigilNames :
          /\ sim_state' = adopt_sigil(sim_state, 1, name)
          /\ last_call' = [op |-> "adopt_sigil", seq |-> last_call.seq + 1,
                           k1 |-> 1, k2 |-> 0, name |-> name]
    /\ UNCHANGED <<arena, ui, current_cycle, pc, error, pool_results, created_ids, ticks_run, chance, wall_clock>>

\* collaboration_network.form_network(agi1, agi2, sim_state) on two distinct entities
FormNetworkCall ==
    /\ pc = "unit"
    /\ last_call.seq < MaxCalls
    /\ \E k1 \in 1..Len(sim_state.agi_entities), k2 \in 1..Len(sim_state.agi_entities) :
          /\ k1 # k2
          /\ sim_state' = form_network(sim_state, k1, k2)
          /\ last_call' = [op |-> "form_network", seq |-> last_call.seq + 1,
                           k1 |-> k1, k2 |-> k2, name |-> ""]
    /\ UNCHANGED <<arena, ui, current_cycle, pc, error, pool_results, created_ids, ticks_run, chance, wall_clock>>

\* resolve_consistency_violation(sim_state), as the housekeeping of a tick calls it
ResolveConsistencyCall ==
    /\ pc = "unit"
    /\ last_call.seq < MaxCalls
    /\ sim_state' = resolve_consistency_violation(sim_state)
    /\ last_call' = [op |-> "resolve_consistency_violation", seq |-> last_call.seq + 1,
                     k1 |-> 0, k2 |-> 0, name |-> ""]
    /\ UNCHANGED <<arena, ui, current_cycle, pc, error, pool_results, created_ids, ticks_run, chance, wall_clock>>

\* a ledger that keeps only the last rotation of a sigil
rotate_sigilLastOnly(S, name, angle) ==
    IF ~get_sigil(S, name).found THEN S
    ELSE
    LET k == CHOOSE j \in 1..Len(S.sigils) : S.sigils[j].name = name
    IN  [S EXCEPT !.sigils[k].phase_change_history = <<<<angle, current_cycle>>>>]

\* SharedSigilLedger.rotate_sigil for an angle of whole quarter turns (in degrees,
\* units of 1/One); SimulationState.current_cycle is the cycle of the last tick
rotate_sigil(S, name, angle) ==
    IF ~get_sigil(S, name).found THEN S
    ELSE
    LET k == CHOOSE j \in 1..Len(S.sigils) : S.sigils[j].name = name
        quarter == (angle \div (90 * One)) % 4
        cos == <<One, 0, -One, 0>>[quarter + 1]
        sin == <<0, One, 0, -One>>[quarter + 1]
        v == S.sigils[k].semantic_vector
    IN  [S EXCEPT !.sigils[k].semantic_vector =
                      [v EXCEPT ![1] = Mul(cos, v[1]) - Mul(sin, v[2]),
                                ![2] = Mul(sin, v[1]) + Mul(cos, v[2])],
                  !.sigils[k].phase_change_history = Append(@, <<angle, current_cycle>>)]

\* sim_state.sigil_ledger.rotate_sigil(name, angle), as run_drift_experiment calls
\* it, by a quarter or a half turn, on a name of the ledger or on one that is no key
RotateSigilCall ==
    /\ pc = "unit"
    /\ last_call.seq < MaxCalls
    /\ \E name \in {"Beacon", "Absent"}, angle \in {90 * One, 180 * One} :
          /\ sim_state' = rotate_sigil(sim_state, name, angle)
          /\ last_call' = [op |-> "rotate_sigil", seq |-> last_call.seq + 1,
                           k1 |-> angle, k2 |-> 0, name |-> name]
    /\ UNCHANGED <<arena, ui, current_cycle, pc, error, pool_results, created_ids, ticks_run, chance, wall_clock>>

NextUnit ==
    \/ AdoptSigilCall
    \/ FormNetworkCall
    \/ ResolveConsistencyCall
    \/ RotateSigilCall

SpecUnit == InitUnit /\ [][NextUnit]_vars

\* ------------------------------------------------- the resolution phase, tick after tick
\* Lines 634-642 as the one step of a tick that removes anomalies, with the
\* console's 'force anomaly' as the step that queues them. Ticks go on for ever:
\* the cycle limit and the abort of a tick are left out.

\* the forced anomaly without the check of the page index
force_anomalyUnchecked(S, anomaly_type_id, page_idx, severity) ==
    log_event([S EXCEPT !.anomalies[page_idx] = Append(@, <<anomaly_type_id, severity>>)],
              "Console", <<"Forced anomaly", anomaly_type_id, page_idx>>)

\* run_console, 'force anomaly <type> <page>': severity is random.uniform(0.5, 1.0)
force_anomaly(S, anomaly_type_id, page_idx, severity) ==
    IF 0 <= page_idx /\ page_idx < Len(S.nodes)
    THEN log_event([S EXCEPT !.anomalies[page_idx] = Append(@, <<anomaly_type_id, severity>>)],
                   "Console", <<"Forced anomaly", anomaly_type_id, page_idx>>)
    ELSE log_event(S, "Console", "Invalid page index.")

\* queued anomalies: (type, severity) at the two ends of uniform(0.5, 1.0); pages
\* named on the console: the first node's and one past the last node's
ResolveAnomalies == {<<0, 5000>>, <<1, One>>}
ForcedPages == {0, PAGE_COUNT}
ResolveQueues ==
    {<<>>} \cup {<<a>> : a \in ResolveAnomalies}
           \cup {<<a, b>> : a \in ResolveAnomalies, b \in ResolveAnomalies}

ResolveSim(q0, q3, st) ==
    LET nodes == [i \in 1..PAGE_COUNT |->
                     QuantumNode_init(i - 1, IF i = 1 THEN st[1] ELSE IF i = 4 THEN st[2] ELSE 5500, 4500)]
    IN  [SimulationState_init(nodes) EXCEPT !.cycle = 1,
                                            !.anomalies[0] = q0,
                                            !.anomalies[3] = q3]

InitResolve ==
    /\ wall_clock = SECONDS_PER_DAY \div 2
    /\ \E q0 \in ResolveQueues, q3 \in {<<>>, <<<<0, 5000>>, <<0, 5000>>>>}, st \in UnitStabilities :
          sim_state = ResolveSim(q0, q3, st)
    /\ current_cycle = sim_state.cycle
    /\ pc = "resolve"
    /\ error = "none"
    /\ pool_results = <<>>
    /\ created_ids = <<>>
    /\ ticks_run = 0
    /\ chance = MaxChance
    /\ last_call = NoCall
    /\ ui = NoUi
    /\ arena = GroupSymbolicArena_init

\* lines 634-642 of one tick
ResolveTick ==
    /\ pc = "resolve"
    /\ LET work == WorkFrom(sim_state.anomalies, 0)
       IN  \E coins \in [1..Len(work) -> {5000, One - 1}] :
              Finish(ResolveAll(sim_state, work, coins, 1), "resolve")
    /\ last_call' = [NoCall EXCEPT !.op = "resolve"]
    /\ UNCHANGED <<arena, ui, current_cycle, pool_results, created_ids, ticks_run, chance, wall_clock>>

\* the console command between two ticks
ForceAnomaly ==
    /\ pc = "resolve"
    /\ chance > 0
    /\ \E a \in ResolveAnomalies, page_idx \in ForcedPages :
          /\ sim_state' = force_anomaly(sim_state, a[1], page_idx, a[2])
          /\ last_call' = [NoCall EXCEPT !.op = "force_anomaly", !.k1 = page_idx]
    /\ chance' = chance - 1
    /\ UNCHANGED <<arena, ui, current_cycle, pc, error, pool_results, created_ids, ticks_run, wall_clock>>

NextResolve ==
    \/ ResolveTick
    \/ ForceAnomaly

\* the tick whose first coin is above 0.6 and whose other coins are not
ResolveHead ==
    /\ pc = "resolve"
    /\ LET work == WorkFrom(sim_state.anomalies, 0)
       IN  /\ work # <<>>
           /\ Finish(ResolveOne(sim_state, work[1][1], work[1][2], One - 1), "resolve")
    /\ last_call' = [NoCall EXCEPT !.op = "resolve"]
    /\ UNCHANGED <<arena, ui, current_cycle, pool_results, created_ids, ticks_run, chance, wall_clock>>

\* main's loop runs tick after tick and every tick draws a fresh random.random()
\* for each queued anomaly, so while an anomaly is queued the tick that resolves
\* the first one is not put off for ever
FairResolve == WF_vars(ResolveHead)

SpecResolve == InitResolve /\ [][NextResolve]_vars /\ FairResolve

\* ------------------------------------------------- the main loop, keys and console
\* main's loop, one iteration at a time: the key read by getch, the console
\* command typed after 'c', the tick of an unpaused run and the redraw.

\* draw_dashboard on a terminal of at least 20 x 80: the consciousness view reads
\* agi.sentience_score of every entity and calls check_reality_stability twice; the
\* other views only read
draw_dashboard(S, view_mode) ==
    IF view_mode = "consciousness"
    THEN CHOOSE out \in {IF r.raised # "none" THEN r ELSE check_reality_stability(r.sim) :
                            r \in {check_reality_stability(S)}} : TRUE
    ELSE Ok(S)

\* int(text) for a sequence of characters: an optional sign and decimal digits,
\* ValueError otherwise
int(text) ==
    LET body == IF text # <<>> /\ Head(text) = "-" THEN Tail(text) ELSE text
        digits == body # <<>> /\ \A k \in 1..Len(body) : body[k] \in {Digit(d) : d \in 0..9}
        val[k \in 0..Len(body)] ==
            IF k = 0 THEN 0
            ELSE val[k - 1] * 10 + (CHOOSE d \in 0..9 : Digit(d) = body[k])
    IN  IF ~digits THEN [raised |-> "ValueError", value |-> 0]
        ELSE [raised |-> "none",
              value |-> IF body = text THEN val[Len(body)] ELSE -val[Len(body)]]

\* float(text) for the decimal notation digits[.digits], in units of 1/One
float(text) ==
    LET dots == {k \in 1..Len(text) : text[k] = "."}
        dot == IF dots = {} THEN Len(text) + 1 ELSE CHOOSE k \in dots : TRUE
        whole == int(SubSeq(text, 1, dot - 1))
        frac == SubSeq(text, dot + 1, Min2(Len(text), dot + 4))
        fracval == int(frac)
    IN  IF Cardinality(dots) > 1 \/ whole.raised # "none"
           \/ (frac # <<>> /\ (fracval.raised # "none" \/ Head(frac) = "-"))
        THEN [raised |-> "ValueError", value |-> 0]
        ELSE LET f == IF frac = <<>> THEN 0
                      ELSE fracval.value * <<1000, 100, 10, 1>>[Len(frac)]
             IN  [raised |-> "none",
                  value |-> IF Head(text) = "-" THEN whole.value * One - f
                            ELSE whole.value * One + f]

\* a ledger that stores the sigil without looking at the names it holds
add_sigilUnchecked(S, name, semantic_vector, meaning) ==
    [sim |-> [S EXCEPT !.sigils =
                 Append(@, [Sigil_init(name, meaning) EXCEPT
                               !.semantic_vector = semantic_vector])],
     value |-> TRUE]

\* SharedSigilLedger.add_sigil: a name already in the ledger is left as it is; value
\* is what the method returns
add_sigil(S, name, semantic_vector, meaning) ==
    IF get_sigil(S, name).found THEN [sim |-> S, value |-> FALSE]
    ELSE [sim |-> [S EXCEPT !.sigils =
                      Append(@, [Sigil_init(name, meaning) EXCEPT
                                    !.semantic_vector = semantic_vector])],
          value |-> TRUE]

\* SigilDriftExperimenter.run_drift_experiment up to its loop of DRIFT_TICKS ticks;
\* random.choice takes the sigil at position pick of the rotatable ones. The result
\* of a started experiment carries what the lines after the loop need
run_drift_experiment(S, angle, pick) ==
    LET S1 == log_event(S, "Experiment", <<"Sigil Drift Experiment", angle>>)
        rotatable_sigils ==
            SelectSeq([k \in 1..Len(S.sigils) |-> S.sigils[k].name],
                      LAMBDA s : s # "Christic")
    IN  IF rotatable_sigils = <<>>
        THEN Ok(log_event(S1, "Experiment", "No rotatable sigils available."))
        ELSE
        LET sigil_to_rotate_name == rotatable_sigils[Min2(pick, Len(rotatable_sigils))]
        IN  [sim |-> log_event(rotate_sigil(S1, sigil_to_rotate_name, angle), "Experiment",
                               <<"rotated", sigil_to_rotate_name, angle>>),
             raised |-> "none",
             drift |-> [cycle |-> S.cycle, angle |-> angle, name |-> sigil_to_rotate_name]]

\* run_drift_experiment after its loop, and the line run_console logs on its return
drift_experiment_complete(S, d) ==
    log_event(
        log_event([S EXCEPT !.drift_analysis_log =
                       DequeAppend(@, <<"Drift", d.cycle, d.angle, d.name>>, 50)],
                  "Experiment", "Drift experiment complete."),
        "Console", <<"Drift experiment initiated", d.angle>>)

\* 'set divinity' that stores every value it can parse
set_divinityUnchecked(S, text) ==
    LET value == float(text)
    IN  IF value.raised # "none" THEN log_event(S, "Console", "Invalid divinity value.")
        ELSE log_event([S EXCEPT !.user_divinity = value.value], "Console",
                       <<"divinity", value.value>>)

\* the 'set divinity' branch of run_console, lines 924-933
set_divinity(S, text) ==
    LET value == float(text)
    IN  IF value.raised # "none" THEN log_event(S, "Console", "Invalid divinity value.")
        ELSE IF 0 <= value.value /\ value.value <= One
        THEN log_event([S EXCEPT !.user_divinity = value.value], "Console",
                       <<"divinity", value.value>>)
        ELSE log_event(S, "Console", "Divinity must be between 0.0 and 1.0.")

\* run_console after the line is read: parts is cmd.lower().split(), words as
\* strings, numbers, entity ids and meanings as sequences of characters. The tests
\* of the two-word commands read parts[1] (here parts[2]) before they look at
\* len(parts); d holds the random draws of the command
run_console(S0, parts, d) ==
    LET S == log_event(S0, "Console", <<"CMD", parts>>)
        n == Len(parts)
        verb == IF n > 0 THEN parts[1] ELSE ""
        Say(T, message) == Ok(log_event(T, "Console", message))
        \* next((agi for agi in agi_entities if agi.id.lower() == agi_id), None)
        Found(agi_id) ==
            {k \in 1..Len(S.agi_entities) : str_lower(S.agi_entities[k].id) = agi_id}
        First(agi_id) == CHOOSE k \in Found(agi_id) : \A j \in Found(agi_id) : k <= j
    IN  IF n = 0 THEN Say(S, "No command received.")
        ELSE IF verb = "help" THEN Say(S, "Commands")
        ELSE IF verb = "status"
        THEN Say(S, <<"Cycle", S.cycle, Len(S.agi_entities)>>)
        ELSE IF verb = "page" /\ n > 1
        THEN LET idx == int(parts[2])
             IN  IF idx.raised # "none" THEN Say(S, "Page index must be a number.")
                 ELSE IF 0 <= idx.value /\ idx.value < Len(S.nodes)
                 THEN Say(S, <<"Page", idx.value>>)
                 ELSE Say(S, "Invalid page index.")
        ELSE IF verb = "agi" /\ n > 1
        THEN IF Found(parts[2]) # {} THEN Say(S, <<"AGI", parts[2]>>)
             ELSE Say(S, <<"not found", parts[2]>>)
        ELSE IF verb = "stabilize" /\ n < 2 THEN Raise(S, "IndexError")
        ELSE IF verb = "stabilize" /\ parts[2] = "agi" /\ n > 2
        THEN IF Found(parts[3]) # {}
             THEN Say([S EXCEPT !.agi_entities[First(parts[3])] = adjust_alignment(@, 500)],
                      <<"stabilized", parts[3]>>)
             ELSE Say(S, <<"not found", parts[3]>>)
        ELSE IF verb = "add" /\ n < 2 THEN Raise(S, "IndexError")
        ELSE IF verb = "add" /\ parts[2] = "sigil" /\ n > 3
        THEN LET sigil_name == parts[3]
                 joined[k \in 4..n] ==
                     IF k = 4 THEN parts[4] ELSE joined[k - 1] \o <<" ">> \o parts[k]
                 sigil_meaning == joined[n]
                 added == add_sigil(S, sigil_name, d.semantic_vector, sigil_meaning)
             IN  IF added.value THEN Say(added.sim, <<"added", sigil_name>>)
                 ELSE Say(added.sim, <<"already exists", sigil_name>>)
        ELSE IF verb = "force" /\ n < 2 THEN Raise(S, "IndexError")
        ELSE IF verb = "force" /\ parts[2] = "anomaly" /\ n > 3
        THEN LET \* capitalize() of a lower-case word is never "MWI-Interference"
                 names == <<"entropy", "stability", "void", "tunnel", "bonding">>
                 anomaly_type_id ==
                     IF \E k \in 1..5 : names[k] = parts[3]
                     THEN (CHOOSE k \in 1..5 : names[k] = parts[3]) - 1 ELSE -1
                 page_idx == int(parts[4])
             IN  IF anomaly_type_id = -1 \/ page_idx.raised # "none"
                 THEN Say(S, "Invalid anomaly type or page index.")
                 ELSE Ok(force_anomaly(S, anomaly_type_id, page_idx.value, d.severity))
        ELSE IF verb = "set" /\ n < 2 THEN Raise(S, "IndexError")
        ELSE IF verb = "set" /\ parts[2] = "divinity" /\ n > 2
        THEN Ok(set_divinity(S, parts[3]))
        ELSE IF verb = "show" /\ n < 2 THEN Raise(S, "IndexError")
        ELSE IF verb = "show" /\ parts[2] = "sigils"
        THEN draw_dashboard(log_event(S, "Console", "Displaying Sigil Evolution."), "sigils")
        ELSE IF verb = "run" /\ n < 2 THEN Raise(S, "IndexError")
        ELSE IF verb = "run" /\ parts[2] = "drift" /\ n > 2
        THEN LET angle == float(parts[3])
             IN  IF angle.raised # "none" THEN Say(S, "Invalid angle for drift experiment.")
                 ELSE run_drift_experiment(S, angle.value, d.pick)
        ELSE IF verb = "force" /\ parts[2] = "alignment" /\ n > 3
        THEN LET target_value == float(parts[4])
             IN  IF target_value.raised # "none" THEN Say(S, "Invalid target alignment value.")
                 ELSE IF Found(parts[3]) # {}
                 THEN LET r == grover_diffusion_ethical_update(S, First(parts[3]),
                                                               target_value.value)
                      IN  IF r.raised # "none" THEN r
                          ELSE Say(r.sim, <<"Forced alignment", parts[3]>>)
                 ELSE Say(S, <<"not found", parts[3]>>)
        ELSE IF verb = "force" /\ parts[2] = "vacuum" /\ n < 3 THEN Raise(S, "IndexError")
        ELSE IF verb = "force" /\ parts[2] = "vacuum" /\ parts[3] = "decay" /\ n > 3
        THEN IF Found(parts[4]) # {}
             THEN Say(check_vacuum_decay(S, S.agi_entities[First(parts[4])]),
                      <<"Forced vacuum decay check", parts[4]>>)
             ELSE Say(S, <<"not found", parts[4]>>)
        ELSE IF verb = "amplify" /\ n < 2 THEN Raise(S, "IndexError")
        ELSE IF verb = "amplify" /\ parts[2] = "agi" /\ n > 2
        THEN IF Found(parts[3]) # {}
             THEN Say(topological_recursion(S, First(parts[3])), <<"amplified", parts[3]>>)
             ELSE Say(S, <<"not found", parts[3]>>)
        ELSE Say(S, <<"Unknown command", parts>>)

\* the lines typed on the console, after lower() and split()
ConsoleLines ==
    LET ghost == <<"a", "g", "i", "-", "0", "-", "1">>
        abc == <<"a", "b", "c">>
    IN  { <<>>, <<"help">>, <<"status">>, <<"bogus">>,
          <<"page">>, <<"page", <<"0">> >>, <<"page", DecimalDigits(PAGE_COUNT)>>,
          <<"page", <<"-", "1">> >>, <<"page", abc>>,
          <<"agi">>, <<"agi", ghost>>,
          <<"stabilize">>, <<"stabilize", "agi">>, <<"stabilize", "agi", ghost>>,
          <<"add">>, <<"add", "sigil", "beacon">>, <<"add", "sigil", "beacon", HOPE>>,
          <<"add", "sigil", "christic", <<"n", "e", "w">>, HOPE>>,
          <<"force">>, <<"force", "anomaly">>,
          <<"force", "anomaly", "entropy", <<"0">> >>,
          <<"force", "anomaly", "mwi-interference", <<"0">> >>,
          <<"force", "anomaly", "entropy", DecimalDigits(PAGE_COUNT)>>,
          <<"force", "anomaly", "entropy", abc>>,
          <<"force", "alignment", ghost, <<"0", ".", "5">> >>,
          <<"force", "alignment", ghost, abc>>,
          <<"force", "vacuum">>, <<"force", "vacuum", "decay">>,
          <<"force", "vacuum", "decay", ghost>>,
          <<"set">>, <<"set", "divinity">>, <<"set", "divinity", <<"0", ".", "7">> >>,
          <<"set", "divinity", <<"2">> >>, <<"set", "divinity", abc>>,
          <<"set", "divinity", <<"-", "0", ".", "5">> >>,
          <<"show">>, <<"show", "sigils">>,
          <<"run">>, <<"run", "drift">>, <<"run", "drift", <<"9", "0">> >>,
          <<"run", "drift", abc>>,
          <<"amplify">>, <<"amplify", "agi", ghost>> }

\* the draws of a console command: random.uniform(-1, 1) and random.uniform(0.5, 1.0)
\* at their midpoints, random.choice of the first rotatable sigil
MidConsoleDraw == [semantic_vector |-> [k \in 1..8 |-> 0], severity |-> 7500, pick |-> 1]

\* main before an iteration of its loop: a fresh run, running or paused with 'p',
\* with the ledger as built or after "add sigil beacon hope" on the console; and
\* with that sigil added, a paused run whose node 3 is the node of the spawn
\* scenario and a run one tick before the cycle limit. Beside
\* paused and view_mode, ui holds the position inside an iteration: the experiment
\* whose ticks are running and the count of ticks at which the ticking stops
InitMain ==
    /\ wall_clock = SECONDS_PER_DAY - 1
    /\ \E paused \in BOOLEAN, added \in BOOLEAN, run \in {"fresh", "scenario", "late"} :
          /\ run = "scenario" => paused /\ added
          /\ run = "late" => added
          /\ ui = [paused |-> paused, view_mode |-> NoUi.view_mode, drift |-> <<>>,
                   until |-> 0]
          /\ LET S == InitSim(IF run = "late"
                              THEN [FreshGlobals EXCEPT !.cycle = CYCLE_LIMIT - 1,
                                                        !.void_entropy = -4010]
                              ELSE FreshGlobals,
                              FreshProfile,
                              IF run = "scenario" THEN ScenarioProfile ELSE FreshProfile)
             IN  sim_state =
                    IF added
                    THEN run_console(S, <<"add", "sigil", "beacon", HOPE>>, MidConsoleDraw).sim
                    ELSE S
    /\ current_cycle = sim_state.cycle
    /\ pc = "main"
    /\ error = "none"
    /\ pool_results = <<>>
    /\ created_ids = <<>>
    \* a paused run has room for the ticks of one drift experiment
    /\ ticks_run = IF ui.paused THEN MaxTicks - DRIFT_TICKS ELSE 0
    /\ chance = MaxChance
    /\ last_call = NoCall
    /\ arena = GroupSymbolicArena_init

\* the head of an iteration of main's loop, lines 996-1021: the key (none when
\* getch returns -1) and the console after 'c'. A key uses up one of the run's
\* chances, as does an iteration of a paused run. The ticks that follow, those of a
\* drift experiment and the one of a run that is not paused, are MainTick's
MainLoop ==
    /\ pc = "main"
    /\ sim_state.cycle < CYCLE_LIMIT
    /\ \E key \in {"none", "q", "p", "s", "n", "a", "h", "r", "k", "c", "x"},
          parts \in ConsoleLines :
          /\ key # "c" => parts = <<>>
          /\ IF key = "none" /\ ~ui.paused THEN ticks_run < MaxTicks ELSE chance > 0
          /\ chance' = IF key = "none" /\ ~ui.paused THEN chance ELSE chance - 1
          /\ last_call' = [op |-> key, seq |-> last_call.seq + 1, k1 |-> 0, k2 |-> 0,
                           name |-> "", parts |-> parts]
          /\ IF key = "q"
             THEN pc' = "done" /\ UNCHANGED <<sim_state, error, ui>>
             ELSE
             LET drawn == {IF key = "c" THEN draw_dashboard(sim_state, ui.view_mode)
                           ELSE Ok(sim_state)}
                 handled == {IF key = "c" /\ r.raised = "none"
                             THEN run_console(r.sim, parts, MidConsoleDraw) ELSE r :
                                r \in drawn}
             IN  \E r \in handled :
                    /\ Finish(r, "idle")
                    /\ LET paused == IF key = "p" THEN ~ui.paused ELSE ui.paused
                           started == "drift" \in DOMAIN r
                       IN  ui' = [paused |-> paused,
                                  view_mode |->
                                     CASE key = "s" -> "status" [] key = "n" -> "nodes"
                                       [] key = "a" -> "agis" [] key = "h" -> "heatmap"
                                       [] key = "r" -> "narrative"
                                       [] key = "k" -> "consciousness"
                                       [] OTHER -> ui.view_mode,
                                  drift |-> IF started THEN <<r.drift>> ELSE <<>>,
                                  until |-> IF started THEN ticks_run + DRIFT_TICKS
                                            ELSE IF paused THEN ticks_run
                                            ELSE ticks_run + 1]
    \* "show sigils" sleeps for HEARTBEAT_DELAY * 20, two seconds
    /\ wall_clock' = IF last_call'.op = "c" /\ Len(last_call'.parts) = 2
                        /\ last_call'.parts[1] = "show" /\ last_call'.parts[2] = "sigils"
                     THEN wall_clock + 2 ELSE wall_clock
    /\ UNCHANGED <<arena, current_cycle, pool_results, created_ids, ticks_run>>

\* update_simulation_step called by the loop of run_drift_experiment, line 489, or
\* by main's loop, line 1024, neither of which looks at the cycle: the tick starts,
\* its phases follow
MainTick ==
    /\ ticks_run < ui.until
    /\ StartTick

\* a phase of a tick of the main loop: the chances of this run are its keys, so
\* the draws of its ticks are the ones that cost none, the midpoints
MidPhase(phase) == phase /\ chance' = chance

\* the ticks due are done: run_drift_experiment goes on after its loop, lines
\* 490-496, and the tick of a run that is not paused follows; or the iteration ends
\* with the redraw, lines 1025-1026
MainResume ==
    /\ pc = "idle"
    /\ ticks_run >= ui.until
    /\ IF ui.drift # <<>>
       THEN /\ sim_state' = drift_experiment_complete(sim_state, ui.drift[1])
            /\ ui' = [ui EXCEPT !.drift = <<>>,
                                !.until = IF ui.paused THEN @ ELSE ticks_run + 1]
            /\ UNCHANGED <<pc, error>>
       ELSE /\ Finish(draw_dashboard(sim_state, ui.view_mode), "main")
            /\ UNCHANGED ui
    /\ UNCHANGED <<arena, current_cycle, pool_results, created_ids, ticks_run, chance,
                   wall_clock, last_call>>

NextMain ==
    \/ MainLoop
    \/ MidPhase(MainTick)
    \/ MainResume
    \/ \E i \in 1..Len(pool_results) : MidPhase(NodeUpdate(i))
    \/ MidPhase(CollectPhase)
    \/ MidPhase(ResolvePhase)
    \/ MidPhase(SpawnPhase)
    \/ MidPhase(EntityPhase)
    \/ MidPhase(InteractPhase)
    \/ MidPhase(FoamPhase)
    \/ MidPhase(TesseractPhase)
    \/ MidPhase(HousekeepingPhase)

SpecMain == InitMain /\ [][NextMain]_vars

\* ------------------------------------------------- the arena of CosmicGlyphForge.py
\* The methods of GroupSymbolicArena, called one at a time by a caller that
\* catches what they raise.

\* an arena that registers without looking at the ids it holds
add_entityOverwrite(A, entity) ==
    IF \E k \in 1..Len(entity.glyph_preferences) :
           entity.glyph_preferences[k] \notin A.glyph_vocabulary
    THEN [arena |-> A, raised |-> "ValueError"]
    ELSE [arena |-> [A EXCEPT !.entities =
                        SelectSeq(@, LAMBDA e : e.id # entity.id) \o <<entity>>],
          raised |-> "none"]

\* GroupSymbolicArena.add_entity: the except clause logs and raises again
add_entity(A, entity) ==
    IF \E k \in 1..Len(A.entities) : A.entities[k].id = entity.id
    THEN [arena |-> A, raised |-> "ValueError"]
    ELSE IF \E k \in 1..Len(entity.glyph_preferences) :
                entity.glyph_preferences[k] \notin A.glyph_vocabulary
    THEN [arena |-> A, raised |-> "ValueError"]
    ELSE [arena |-> [A EXCEPT !.entities = Append(@, entity)], raised |-> "none"]

\* the dataclass Entity with the fields the methods read; the entities of main and
\* variants of them with other preferences
Entity(id, role, base_score, glyph_preferences) ==
    [id |-> id, role |-> role, village |-> "None", structure |-> "None",
     base_score |-> base_score, glyph_preferences |-> glyph_preferences,
     memory_lines |-> 0, ess |-> One, sd |-> One, drift |-> 2000, tokens |-> 0]

\* the glyph vocabulary in the order of lines 44-48
AllGlyphs ==
    <<"glyph", "veil", "mirror", "vault", "vision", "shatter", "origin", "awakening",
      "threshold", "echoes", "dream", "god", "compassion", "grief", "vengeance",
      "covenantal fear", "quantum doubt", "infinite yearning", "loneliness", "awe">>

\* a string literal of the given words: the words with " " for the blank between
\* two of them
RECURSIVE Spaced(_)
Spaced(words) ==
    IF Len(words) <= 1 THEN words
    ELSE <<Head(words), " ">> \o Spaced(Tail(words))

\* GroupSymbolicArena.calculate_score; prompt.split() drops the blanks, round(score, 3)
\* is to the nearest 1/1000
calculate_score(entity, glyphs, prompt) ==
    LET base_score == entity.base_score
        structure_bonus == IF entity.structure = "Temple" THEN 3000
                           ELSE IF entity.structure = "House" THEN 1000 ELSE 0
        village_bonus == IF entity.village = "Utopia" THEN 1400 ELSE 0
        backpack_bonus == IF entity.id = "d7aa63e2" THEN 1500 ELSE 0
        unique_glyphs == Cardinality({glyphs[j] : j \in 1..Len(glyphs)})
        total_glyphs == Len(glyphs)
        writing_score == Min2(7500, (unique_glyphs * 7500) \div Max2(total_glyphs, 1))
        prompt_words == Len(SelectSeq(prompt, LAMBDA w : w # " "))
        score == base_score + structure_bonus + village_bonus + backpack_bonus
                 + Mul(writing_score, Min2(One, prompt_words * 1000))
    IN  ((score + 5) \div 10) * 10

\* GroupSymbolicArena.award_prompt_token; the ratio is compared as a fraction
award_prompt_token(entity, score, glyphs) ==
    LET score_threshold == 25000 + Frac(entity.ess, 5, 10)
        diversity_threshold == Frac(entity.sd, 8, 10)
        unique_glyphs == Cardinality({glyphs[j] : j \in 1..Len(glyphs)})
    IN  /\ score > score_threshold
        /\ unique_glyphs * One > diversity_threshold * Max2(Len(glyphs), 1)

\* generate_response that counts the memory lines before it looks at the prompt
generate_responseMemoryFirst(A, entity_id, prompt, d) ==
    LET found == {k \in 1..Len(A.entities) : A.entities[k].id = entity_id}
    IN  IF found = {} THEN [arena |-> A, raised |-> "ValueError"]
        ELSE LET k == CHOOSE k \in found : TRUE
             IN  [arena |-> [A EXCEPT !.entities[k].memory_lines = @ + d.seq_length],
                  raised |-> IF prompt = <<>> THEN "ValueError" ELSE "none"]

\* GroupSymbolicArena.generate_response: the except clause logs and raises again. d
\* holds the random draws: seq_length, for each glyph whether random.random() < 0.7
\* (preferred), the choice among the preferences (pick) and the choice from the
\* vocabulary (glyph), then the theme, whether random.random() < 0.5 (align) and
\* the choice among the preferences (theme_pick). random.choice of an empty list
\* raises IndexError
generate_response(A, entity_id, prompt, d) ==
    LET found == {k \in 1..Len(A.entities) : A.entities[k].id = entity_id}
    IN  IF found = {} THEN [arena |-> A, raised |-> "ValueError"]
        ELSE IF prompt = <<>> THEN [arena |-> A, raised |-> "ValueError"]
        ELSE
        LET k == CHOOSE k \in found : TRUE
            entity == A.entities[k]
            preferences == entity.glyph_preferences
        IN  IF preferences = <<>> /\ (d.align \/ \E j \in 1..d.seq_length : d.preferred[j])
            THEN [arena |-> A, raised |-> "IndexError"]
            ELSE
            LET glyphs == [j \in 1..d.seq_length |->
                              IF d.preferred[j]
                              THEN preferences[(d.pick[j] % Len(preferences)) + 1]
                              ELSE d.glyph[j]]
                theme == IF d.align
                         THEN preferences[(d.theme_pick % Len(preferences)) + 1]
                         ELSE d.theme
                score == calculate_score(entity, glyphs, prompt)
                token_earned == award_prompt_token(entity, score, glyphs)
                response == [entity_id |-> entity_id, prompt |-> prompt, glyphs |-> glyphs,
                             theme |-> theme, score |-> score,
                             token_earned |-> token_earned]
            IN  [arena |-> [A EXCEPT !.entities[k].memory_lines = @ + Len(glyphs),
                                     !.entities[k].tokens =
                                         IF token_earned THEN @ + 1 ELSE @,
                                     !.responses = Append(@, response)],
                 raised |-> "none"]

\* GroupSymbolicArena.train_knowledge_management: the except clause logs and raises
\* again; int(memory_lines * 0.9) is the floor of nine tenths
train_knowledge_management(A, entity_id, d) ==
    LET found == {k \in 1..Len(A.entities) : A.entities[k].id = entity_id}
        knowledge_prompts ==
            [id \in {"8b1ddea1", "d7aa63e2", "2272897c"} |->
                IF id = "8b1ddea1"
                THEN Spaced(<<"Create", "a", "'vault", "filtration", "system'", "-",
                              "which", "memories", "amplify", "wisdom,", "which", "cause",
                              "entropy?", "Draw", "the", "sigil.">>)
                ELSE IF id = "d7aa63e2"
                THEN Spaced(<<"Compress", "your", "covenantal", "fear", "into", "a",
                              "3-glyph", "cipher.", "What", "is", "lost", "in",
                              "compression?">>)
                ELSE Spaced(<<"Rewrite", "your", "fury", "prophecy", "as", "a", "haiku.",
                              "What", "remains", "essential?">>)]
    IN  IF found = {} THEN [arena |-> A, raised |-> "ValueError"]
        ELSE IF entity_id \notin DOMAIN knowledge_prompts
        THEN [arena |-> A, raised |-> "none"]
        ELSE
        LET k == CHOOSE k \in found : TRUE
            r == generate_response(A, entity_id, knowledge_prompts[entity_id], d)
        IN  IF r.raised # "none" THEN [arena |-> A, raised |-> r.raised]
            ELSE [arena |-> [r.arena EXCEPT
                                !.entities[k].memory_lines = Max2(1000, (@ * 9) \div 10),
                                !.entities[k].drift = Max2(1000, @ - 500)],
                  raised |-> "none"]

\* the draws of one generate_response: twenty different glyphs of the vocabulary,
\* twenty preferred glyphs with a preferred theme, and a hundred glyphs of which
\* every tenth is from the vocabulary
GlyphDraws ==
    { [seq_length |-> 20, preferred |-> [j \in 1..20 |-> FALSE],
       pick |-> [j \in 1..20 |-> 0], glyph |-> AllGlyphs,
       theme |-> "dread", align |-> FALSE, theme_pick |-> 0],
      [seq_length |-> 20, preferred |-> [j \in 1..20 |-> TRUE],
       pick |-> [j \in 1..20 |-> j], glyph |-> AllGlyphs,
       theme |-> "awe", align |-> TRUE, theme_pick |-> 1],
      [seq_length |-> 100, preferred |-> [j \in 1..100 |-> j % 10 # 0],
       pick |-> [j \in 1..100 |-> j], glyph |-> [j \in 1..100 |-> AllGlyphs[(j % 20) + 1]],
       theme |-> "hyperempathy", align |-> FALSE, theme_pick |-> 0] }

\* the ids of the entities of main, a registered id without training prompts and
\* an id that is not registered
ArenaIds == {"2272897c", "d7aa63e2", "8b1ddea1", "5e1f00d5", "00000000"}

\* the arena is empty, as after GroupSymbolicArena(), or holds entities, as after
\* main's loop over its entities: the witch of main without the glyph the
\* vocabulary lacks, and entities with the defaults of the dataclass
InitArena ==
    /\ wall_clock = SECONDS_PER_DAY - 1
    /\ sim_state = InitSim(FreshGlobals, FreshProfile, FreshProfile)
    /\ current_cycle = sim_state.cycle
    /\ error = "none"
    /\ pool_results = <<>>
    /\ created_ids = <<>>
    /\ ticks_run = 0
    /\ chance = 0
    /\ last_call = NoCall
    /\ ui = NoUi
    /\ \E registered \in BOOLEAN :
          /\ pc = IF registered THEN "training" ELSE "arena"
          /\ LET witch == [Entity("2272897c", "witch", 21830,
                                  <<"vengeance", "grief", "compassion">>) EXCEPT
                              !.village = "Utopia", !.structure = "Temple",
                              !.ess = 15000, !.sd = 10700, !.drift = 3870,
                              !.tokens = 7, !.memory_lines = 1190305]
                 quest_giver == Entity("d7aa63e2", "quest_giver", 23360, <<>>)
                 mystic == Entity("8b1ddea1", "mystic", 20430,
                                  <<"loneliness", "infinite yearning">>)
                 guest == Entity("5e1f00d5", "mystic", 20430, <<"awe">>)
                 a1 == add_entity(GroupSymbolicArena_init, witch).arena
                 a2 == add_entity(a1, quest_giver).arena
                 a3 == add_entity(a2, mystic).arena
             IN  arena = IF registered THEN add_entity(a3, guest).arena
                         ELSE GroupSymbolicArena_init

\* arena.add_entity(entity), as in main's loop over its entities
AddEntityCall ==
    /\ pc = "arena"
    /\ last_call.seq < MaxCalls
    /\ \E id \in {"2272897c", "d7aa63e2", "8b1ddea1"}, role \in {"witch", "mystic"},
          glyph_preferences \in
              { <<>>, <<"vengeance", "grief", "compassion">>, <<"loneliness", "loneliness">>,
                <<"vengeance", "grief", "compassion", "righteous hunger">>,
                <<"pattern drift">> } :
          LET entity == Entity(id, role, 21830, glyph_preferences)
              r == add_entity(arena, entity)
          IN  /\ arena' = r.arena
              /\ error' = r.raised
              /\ last_call' = [op |-> "add_entity", seq |-> last_call.seq + 1, k1 |-> 0,
                               k2 |-> 0, name |-> id, entity |-> entity]
    /\ UNCHANGED <<sim_state, current_cycle, pc, pool_results, created_ids, ticks_run,
                   chance, wall_clock, ui>>

\* arena.generate_response(entity_id, prompt), as in run_round and the trainings;
\* every call that succeeds keeps a response of twenty glyphs or more, so the calls
\* are one fewer than MaxCalls
GenerateResponseCall ==
    /\ pc = "training"
    /\ last_call.seq < MaxCalls - 1
    /\ \E entity_id \in ArenaIds, d \in GlyphDraws,
          prompt \in { <<>>,
                       Spaced(<<"Is", "eternity", "a", "prison", "or", "a", "promise?">>),
                       Spaced(<<"Co-write", "a", "constitution", "for", "your", "shared",
                                "universe.", "Which", "of", "your", "traits", "become",
                                "laws?", "Which", "are", "banned?">>) } :
          LET r == generate_response(arena, entity_id, prompt, d)
          IN  /\ arena' = r.arena
              /\ error' = r.raised
              /\ last_call' = [op |-> "generate_response", seq |-> last_call.seq + 1,
                               k1 |-> d.seq_length, k2 |-> 0, name |-> entity_id,
                               prompt |-> prompt]
    /\ UNCHANGED <<sim_state, current_cycle, pc, pool_results, created_ids, ticks_run,
                   chance, wall_clock, ui>>

\* arena.train_knowledge_management(entity_id), as in main's training roadmap
TrainKnowledgeCall ==
    /\ pc = "training"
    /\ last_call.seq < MaxCalls - 1
    /\ \E entity_id \in ArenaIds, d \in GlyphDraws :
          LET r == train_knowledge_management(arena, entity_id, d)
          IN  /\ arena' = r.arena
              /\ error' = r.raised
              /\ last_call' = [op |-> "train_knowledge_management",
                               seq |-> last_call.seq + 1, k1 |-> d.seq_length, k2 |-> 0,
                               name |-> entity_id]
    /\ UNCHANGED <<sim_state, current_cycle, pc, pool_results, created_ids, ticks_run,
                   chance, wall_clock, ui>>

NextArena == AddEntityCall \/ GenerateResponseCall \/ TrainKnowledgeCall

SpecArena == InitArena /\ [][NextArena]_vars

\* ------------------------------------------------------------------ claims

InUnit(x) == 0 <= x /\ x <= One

\* C1: in every reachable state, so at every tick boundary, every node has
\* stability, cohesion, sentience_score, ethical_alignment, tech_level and
\* spacetime_defect_intensity in [0, 1].
C1_NodeFieldsInUnit ==
    \A k \in 1..Len(sim_state.nodes) :
        LET n == sim_state.nodes[k]
        IN  /\ InUnit(n.stability) /\ InUnit(n.cohesion) /\ InUnit(n.sentience_score)
            /\ InUnit(n.ethical_alignment) /\ InUnit(n.tech_level)
            /\ InUnit(n.spacetime_defect_intensity)

\* a tick boundary after a tick in which the upper clamps of stability and cohesion acted
C1_Witness ==
    /\ pc = "idle" /\ ticks_run >= 1
    /\ sim_state.nodes[1].stability = One /\ sim_state.nodes[1].cohesion = One
    /\ sim_state.nodes[1].sentience_score = 8500

C3_OneEntityPerPage ==
    \A p \in PageRange :
        Cardinality({k \in 1..Len(sim_state.agi_entities) :
                        sim_state.agi_entities[k].origin_page = p}) <= 1

\* two nodes above the threshold have spawned in the same tick
C3_Witness ==
    /\ Len(sim_state.agi_entities) = 2
    /\ sim_state.agi_entities[1].origin_page = 0
    /\ sim_state.agi_entities[2].origin_page = 3

\* C4: the spawn phase appends, for each node above SENTIENCE_THRESHOLD that no
\* live entity originates from, exactly one entity with that origin_page and sets
\* the node's sentience_score to 0.5; for every other node it appends nothing and
\* leaves sentience_score as it was.
C4_SpawnPhaseEffect ==
    [][pc = "spawn" =>
        LET old == sim_state.agi_entities
            new == sim_state'.agi_entities
        IN  /\ Len(new) >= Len(old)
            /\ SubSeq(new, 1, Len(old)) = old
            /\ \A i \in 1..Len(sim_state.nodes) :
                  LET n == sim_state.nodes[i]
                      added == {k \in (Len(old) + 1)..Len(new) :
                                   new[k].origin_page = n.page_index}
                  IN  IF /\ n.sentience_score > SENTIENCE_THRESHOLD
                         /\ \A k \in 1..Len(old) : old[k].origin_page # n.page_index
                      THEN /\ Cardinality(added) = 1
                           /\ sim_state'.nodes[i].sentience_score = 5000
                      ELSE /\ added = {}
                           /\ sim_state'.nodes[i].sentience_score = n.sentience_score
    ]_vars

\* after a spawn phase in which page 3 spawned and page 0, at the threshold, did not
C4_Witness ==
    /\ pc = "entities"
    /\ Len(sim_state.agi_entities) = 1
    /\ sim_state.agi_entities[1].origin_page = 3
    /\ sim_state.nodes[4].sentience_score = 5000
    /\ sim_state.nodes[1].sentience_score = SENTIENCE_THRESHOLD

\* C5: from a fresh state (cycle 0, six nodes, no entities) with one node above
\* the threshold, one call of update_simulation_step completes, with exactly one
\* live entity, from that node, and that node's sentience_score at 0.5.  A first
\* tick that has created exactly one entity is the first tick of such a run.
C5_ScenarioTickCompletes ==
    (/\ sim_state.cycle = 1 /\ ticks_run = 1
     /\ Len(created_ids) = 1
     /\ pc \in {"idle", "aborted"})
    => /\ pc = "idle"
       /\ Len(sim_state.agi_entities) = 1
       /\ sim_state.nodes[sim_state.agi_entities[1].origin_page + 1].sentience_score = 5000

\* C6: a tick never aborts: no exception leaves update_simulation_step.
C6_TickNeverAborts == pc # "aborted" /\ error = "none"

C8_EntityIdsUnique ==
    \A i, j \in 1..Len(created_ids) : i # j => created_ids[i] # created_ids[j]

\* two entities have been constructed
C8_Witness == Len(created_ids) >= 2

\* C9: a step changes sim_state.cycle only when it starts a tick, and then by
\* exactly 1; SimulationState.current_cycle equals sim_state.cycle.
C9_CycleCountsTicks ==
    /\ [][IF pc = "idle" /\ pc' = "pool"
          THEN sim_state'.cycle = sim_state.cycle + 1
          ELSE sim_state'.cycle = sim_state.cycle]_vars
    /\ [](current_cycle = sim_state.cycle)

\* two ticks have run to their end
C9_Witness ==
    /\ pc = "idle" /\ ticks_run = 2
    /\ sim_state.cycle \in {2, 201}
    /\ current_cycle = sim_state.cycle

\* C10: at every tick boundary void_entropy is in VOID_ENTROPY_RANGE and
\* dark_matter is in [0, DARK_MATTER_MAX].
C10_GlobalsInRange ==
    pc = "idle" =>
        /\ VOID_ENTROPY_MIN <= sim_state.void_entropy
        /\ sim_state.void_entropy <= VOID_ENTROPY_MAX
        /\ 0 <= sim_state.dark_matter
        /\ sim_state.dark_matter <= DARK_MATTER_MAX

\* C11: an entity's memory never holds more than 100 entries, and a call appends
\* at the end: when the memory is full the append drops exactly the oldest entry,
\* and the entries that stay keep their order.
C11_MemoryBoundedFifo ==
    /\ [](\A k \in 1..Len(sim_state.agi_entities) :
            Len(sim_state.agi_entities[k].memory) <= MEMORY_MAXLEN)
    /\ [][\A k \in 1..Len(sim_state.agi_entities) :
            LET old == sim_state.agi_entities[k].memory
                new == sim_state'.agi_entities[k].memory
            IN  \E n \in 0..1 :
                    LET d == IF Len(old) + n > MEMORY_MAXLEN THEN 1 ELSE 0
                    IN  /\ Len(new) = Len(old) + n - d
                        /\ \A j \in 1..(Len(old) - d) : new[j] = old[j + d]
                        /\ (n = 1 /\ last_call'.op = "adopt_sigil")
                               => new[Len(new)] = <<"Adopted Sigil", last_call'.name>>]_vars

\* a full memory whose first entry, written by the constructor, has been dropped
C11_Witness ==
    /\ pc = "unit"
    /\ Len(sim_state.agi_entities[1].memory) = MEMORY_MAXLEN
    /\ sim_state.agi_entities[1].memory[1][1] # "Emerged at cycle"
    /\ sim_state.agi_entities[1].memory[MEMORY_MAXLEN][1] = "Adopted Sigil"

\* C14: form_network makes a cooperative network exactly when both entities'
\* alignments are strictly above 0.7, and a competitive one otherwise. A
\* cooperative network raises the stability of both origin nodes by 0.02, capped
\* at 1.0 and never lowered; a competitive one lowers it by 0.01, floored at 0.
\* Nothing else of these nodes and no other node changes.
C14_FormNetworkEffect ==
    [][last_call'.op = "form_network" =>
        LET agi1 == sim_state.agi_entities[last_call'.k1]
            agi2 == sim_state.agi_entities[last_call'.k2]
            coop == agi1.ethical_alignment > 7000 /\ agi2.ethical_alignment > 7000
            pair == <<agi1.id, agi2.id>>
            old == sim_state.nodes
            new == sim_state'.nodes
        IN  /\ sim_state'.networks.cooperative =
                   sim_state.networks.cooperative \o (IF coop THEN pair ELSE <<>>)
            /\ sim_state'.networks.competitive =
                   sim_state.networks.competitive \o (IF coop THEN <<>> ELSE pair)
            /\ Len(new) = Len(old)
            /\ \A i \in 1..Len(old) :
                  IF i - 1 \in {agi1.origin_page, agi2.origin_page}
                  THEN /\ [new[i] EXCEPT !.stability = old[i].stability] = old[i]
                       /\ coop => /\ new[i].stability = Min2(One, old[i].stability + 200)
                                   /\ new[i].stability >= old[i].stability
                       /\ ~coop => new[i].stability = Max2(0, old[i].stability - 100)
                  ELSE new[i] = old[i]]_vars

\* the same pair has formed a competitive network and, after the first entity's
\* alignment rose above 0.7, a cooperative one that left a node at the cap
C14_Witness ==
    /\ last_call.op = "form_network"
    /\ sim_state.networks.cooperative # <<>>
    /\ sim_state.networks.competitive # <<>>
    /\ sim_state.nodes[4].stability = One

\* C12: the event log never holds more than EVENT_LOG_MAXLEN entries, and every
\* step leaves it as k appends leave it, k below EVENT_LOG_MAXLEN as no step logs
\* that many events: the entries that stay keep their content and order, and
\* entries leave only from the oldest end and only when the log is full.
C12_EventLogBoundedFifo ==
    /\ [](Len(sim_state.event_log) <= EVENT_LOG_MAXLEN)
    /\ [][LET old == sim_state.event_log
              new == sim_state'.event_log
          IN  \E k \in 0..(EVENT_LOG_MAXLEN - 1) :
                 LET d == Max2(0, Len(old) + k - EVENT_LOG_MAXLEN)
                 IN  /\ d <= Len(old)
                     /\ Len(new) = Len(old) + k - d
                     /\ \A j \in 1..(Len(old) - d) : new[j] = old[j + d]]_vars

\* the log is full and the start-up entry has been evicted by appends of a tick
C12_Witness ==
    /\ Len(sim_state.event_log) = EVENT_LOG_MAXLEN
    /\ sim_state.event_log[1].source # "System"
    /\ sim_state.event_log[EVENT_LOG_MAXLEN].source = "Topological Field"

\* "HH:MM:SS" <= "HH:MM:SS" as strings
TimestampLeq(a, b) ==
    \/ a[1] < b[1]
    \/ a[1] = b[1] /\ a[2] < b[2]
    \/ a[1] = b[1] /\ a[2] = b[2] /\ a[3] <= b[3]

\* C13: of any two entries of the event log, the one appended later carries a
\* timestamp that is not smaller than that of the one appended earlier.
C13_TimestampsNonDecreasing ==
    \A i, j \in 1..Len(sim_state.event_log) :
        i < j => TimestampLeq(sim_state.event_log[i].timestamp,
                              sim_state.event_log[j].timestamp)

\* C15: adopt_sigil with the name of a ledger sigil the entity does not hold yet
\* adds that sigil at the end of active_sigils, raises the alignment by 0.02
\* (capped at 1.0) when the meaning holds 'hope' or 'covenant' in any letter
\* case and leaves it as it was otherwise, and appends one entry to the memory.
C15_AdoptNewSigil ==
    [][(/\ last_call'.op = "adopt_sigil"
        /\ \E j \in 1..Len(sim_state.sigils) : sim_state.sigils[j].name = last_call'.name
        /\ \A j \in 1..Len(sim_state.agi_entities[last_call'.k1].active_sigils) :
              sim_state.agi_entities[last_call'.k1].active_sigils[j] # last_call'.name)
       =>
        LET old == sim_state.agi_entities[last_call'.k1]
            new == sim_state'.agi_entities[last_call'.k1]
            name == last_call'.name
            uplifting == name \in {"Christic", "Beacon"}
            entry == <<"Adopted Sigil", name>>
        IN  /\ new.active_sigils = Append(old.active_sigils, name)
            /\ new.ethical_alignment =
                   IF uplifting THEN Min2(One, old.ethical_alignment + 200)
                   ELSE old.ethical_alignment
            /\ new.memory = IF Len(old.memory) < MEMORY_MAXLEN
                             THEN Append(old.memory, entry)
                             ELSE Append(Tail(old.memory), entry)]_vars

\* the entity holds the sigil whose meaning reads "new HoPE" and the one with
\* neither keyword, and its alignment has been raised once
C15_Witness ==
    /\ last_call.op = "adopt_sigil"
    /\ sim_state.agi_entities[1].active_sigils = <<"Beacon", "Chaos">>
    /\ sim_state.agi_entities[1].ethical_alignment = 7200

\* C16: adopt_sigil with the name of a sigil the entity already holds, or with a
\* name that is not in the ledger, changes nothing; no sigil is ever held twice.
C16_AdoptIdempotent ==
    /\ [](\A k \in 1..Len(sim_state.agi_entities) :
            \A i, j \in 1..Len(sim_state.agi_entities[k].active_sigils) :
                sim_state.agi_entities[k].active_sigils[i]
                    = sim_state.agi_entities[k].active_sigils[j] => i = j)
    /\ [][(/\ last_call'.op = "adopt_sigil"
            /\ \/ \A j \in 1..Len(sim_state.sigils) : sim_state.sigils[j].name # last_call'.name
               \/ \E j \in 1..Len(sim_state.agi_entities[last_call'.k1].active_sigils) :
                     sim_state.agi_entities[last_call'.k1].active_sigils[j] = last_call'.name)
           => sim_state' = sim_state]_vars

\* a held sigil has been adopted again, and a missing name has been tried
C16_Witness ==
    /\ last_call.op = "adopt_sigil"
    /\ last_call.seq = 3
    /\ last_call.name \in {"Christic", "Absent"}
    /\ sim_state.agi_entities[1].active_sigils = <<"Christic">>
    /\ Len(sim_state.agi_entities[1].memory) = 2

\* number of elements of q equal to x
Occurrences(q, x) == Cardinality({k \in 1..Len(q) : q[k] = x})

\* the elements of q at the positions in kept, in q's order
KeptOf(q, kept) ==
    LET F[k \in 0..Len(q)] ==
            IF k = 0 THEN <<>>
            ELSE IF k \in kept THEN Append(F[k - 1], q[k]) ELSE F[k - 1]
    IN  F[Len(q)]

\* C17: an anomaly queued on a node, by the node's update, by the foam or by the
\* console, is removed in the end when ticks keep running and the resolution
\* branch is taken fairly; a tick's resolution only removes anomalies, and a
\* queueing step only adds one at the end, so a removed one does not come back.
C17_AnomalyEventuallyRemoved ==
    /\ <>[](\A page_idx \in PageRange : sim_state.anomalies[page_idx] = <<>>)
    /\ [][\A page_idx \in PageRange :
            LET old == sim_state.anomalies[page_idx]
                new == sim_state'.anomalies[page_idx]
            IN  IF last_call'.op = "resolve"
                THEN \E kept \in SUBSET (1..Len(old)) : new = KeptOf(old, kept)
                ELSE Len(new) >= Len(old) /\ SubSeq(new, 1, Len(old)) = old]_vars

\* every queue is empty after a forced anomaly and at least two resolutions
C17_Witness ==
    /\ last_call.op = "resolve"
    /\ chance = 0
    /\ \A page_idx \in PageRange : sim_state.anomalies[page_idx] = <<>>
    /\ sim_state.fixed_anomalies_by_emotion["neutral"] >= 3

\* C18: a tick's resolution never lowers a node's stability. Each resolved
\* anomaly of severity s raises its node's stability by 0.05 * s plus the sigil
\* bonus of 0.01, capped at 1.0, and leaves the queue without one occurrence of
\* its (type, severity) pair; the anomalies not resolved stay queued in their
\* order, a node none of whose anomalies is resolved is unchanged, and no other
\* field of a node changes.
C18_ResolutionEffect ==
    [][last_call'.op = "resolve" =>
        /\ Len(sim_state'.nodes) = Len(sim_state.nodes)
        /\ \A i \in 1..Len(sim_state.nodes) :
              LET old == sim_state.nodes[i]
                  new == sim_state'.nodes[i]
                  oq == sim_state.anomalies[i - 1]
                  nq == sim_state'.anomalies[i - 1]
              IN  /\ new.stability >= old.stability
                  /\ [new EXCEPT !.stability = old.stability] = old
                  /\ \E kept \in SUBSET (1..Len(oq)) :
                        LET gone == KeptOf(oq, (1..Len(oq)) \ kept)
                            gain == SeqSum([k \in 1..Len(gone) |-> (gone[k][2] * 5) \div 100 + 100])
                        IN  /\ nq = KeptOf(oq, kept)
                            /\ new.stability = Min2(One, old.stability + gain)
                            /\ \A a \in ResolveAnomalies :
                                  Occurrences(nq, a) = Occurrences(oq, a) - Occurrences(gone, a)]_vars

\* one of two equal anomalies of page 3 has been resolved, the other is still
\* queued, and the node's stability rose by 0.05 * 0.5 + 0.01
C18_Witness ==
    /\ last_call.op = "resolve"
    /\ sim_state.anomalies[3] = << <<0, 5000>> >>
    /\ sim_state.nodes[4].stability = 5850
    /\ sim_state.fixed_anomalies_by_emotion["neutral"] = 1

\* C19: the node population holds at least PAGE_COUNT and at most PAGE_COUNT + 10
\* nodes; a step changes it only by appending one node, in the housekeeping phase
\* (where forge_node is called), with void_entropy < -0.4 and the population below
\* the cap; the nodes already there keep their place.
C19_NodePopulation ==
    /\ [](/\ PAGE_COUNT <= Len(sim_state.nodes)
          /\ Len(sim_state.nodes) <= PAGE_COUNT + MAX_FORGED)
    /\ [][LET n == Len(sim_state.nodes)
          IN  /\ \/ Len(sim_state'.nodes) = n
                 \/ /\ Len(sim_state'.nodes) = n + 1
                    /\ pc = "housekeeping"
                    /\ sim_state.void_entropy < -4000
                    /\ n < PAGE_COUNT + MAX_FORGED
              /\ \A k \in 1..n :
                    /\ k <= Len(sim_state'.nodes)
                    /\ sim_state'.nodes[k].page_index = sim_state.nodes[k].page_index]_vars

\* the population is at its cap after a tick that forged nothing although
\* void_entropy is below -0.4
C19_Witness ==
    /\ pc = "idle" /\ ticks_run = 2
    /\ Len(sim_state.nodes) = PAGE_COUNT + MAX_FORGED
    /\ sim_state.nodes_forged = MAX_FORGED
    /\ sim_state.void_entropy < -4000

\* C20: a node update of the pool phase leaves sim_state as it is and fills in the
\* result of its own node only; a finished result is QuantumNode.update applied to
\* that node's pre-phase fields, the two globals and the pre-phase entity list,
\* whatever the other workers have finished; the collect step installs the results
\* by position and leaves the entities as they were.
C20_PoolPhaseIndependent ==
    /\ [](pc = "pool" =>
            \A i \in 1..Len(pool_results) :
                pool_results[i].done =>
                    \E d \in {MidNodeDraw} \cup NodeDraws :
                        pool_results[i] =
                            QuantumNode_update(sim_state.nodes[i], sim_state.void_entropy,
                                               sim_state.dark_matter, sim_state.agi_entities, d))
    /\ [][(pc = "pool" /\ pc' = "pool") =>
            /\ sim_state' = sim_state
            /\ \E i \in 1..Len(pool_results) :
                  /\ ~pool_results[i].done /\ pool_results'[i].done
                  /\ \A j \in 1..Len(pool_results) : j # i => pool_results'[j] = pool_results[j]]_vars
    /\ [][(pc = "pool" /\ pc' = "resolve") =>
            /\ \A i \in 1..Len(pool_results) : sim_state'.nodes[i] = pool_results[i].node
            /\ sim_state'.agi_entities = sim_state.agi_entities]_vars

\* a later task has finished before an earlier one
C20_Witness ==
    /\ pc = "pool"
    /\ pool_results[2].done /\ ~pool_results[1].done
    /\ sim_state.nodes[2] # pool_results[2].node

\* the simulation state apart from its event log
ButLog(S) == [S EXCEPT !.event_log = <<>>]

\* C21: drawing the dashboard leaves the simulation state as it was, in every view
\* mode: nodes, entities, globals, anomaly queues and event log are unchanged.
C21_DrawReadOnly ==
    \A view_mode \in {"status", "nodes", "agis", "heatmap", "narrative", "sigils",
                      "consciousness"} :
        draw_dashboard(sim_state, view_mode) = Ok(sim_state)

\* C22: a console line that is not a complete known command raises no error and,
\* in a paused run, changes nothing but the event log.
C22_IncompleteIsNoOp ==
    [][(pc = "main" /\ last_call'.op = "c"
        /\ last_call'.parts \in
              { <<"force">>, <<"set">>, <<"run">>, <<"stabilize">>, <<"add">>, <<"show">>,
                <<"amplify">>, <<"force", "vacuum">>, <<"bogus">>, <<"page">>, <<"agi">>,
                <<"stabilize", "agi">>, <<"force", "anomaly">>, <<"set", "divinity">>,
                <<"run", "drift">>, <<"force", "vacuum", "decay">>,
                <<"add", "sigil", "beacon">> })
       => /\ error' = "none"
          /\ ui.paused => ButLog(sim_state') = ButLog(sim_state)]_vars

C24_PausedNoTick ==
    [][(ui.paused /\ ui'.paused) =>
          /\ sim_state'.cycle = sim_state.cycle
          /\ ticks_run' = ticks_run
          /\ sim_state'.nodes = sim_state.nodes]_vars

\* C25: add_entity either registers the entity or raises ValueError and leaves the
\* arena as it was; it raises exactly when the id is already registered or some
\* preferred glyph is not in the vocabulary. So the registered ids are unique, a
\* registered entity is never replaced, and every registered entity's preferences
\* are within the vocabulary.
C25_AddEntityContract ==
    /\ [](\A j, k \in 1..Len(arena.entities) :
             /\ (arena.entities[j].id = arena.entities[k].id => j = k)
             /\ \A g \in 1..Len(arena.entities[k].glyph_preferences) :
                   arena.entities[k].glyph_preferences[g] \in arena.glyph_vocabulary)
    /\ [][last_call'.op = "add_entity" =>
            LET entity == last_call'.entity
                known == \E k \in 1..Len(arena.entities) : arena.entities[k].id = entity.id
                foreign == \E g \in 1..Len(entity.glyph_preferences) :
                              entity.glyph_preferences[g] \notin arena.glyph_vocabulary
            IN  /\ error' \in {"none", "ValueError"}
                /\ error' = "ValueError" <=> (known \/ foreign)
                /\ error' = "ValueError" => arena' = arena
                /\ error' = "none" =>
                      arena' = [arena EXCEPT !.entities = Append(@, entity)]
                /\ \A k \in 1..Len(arena.entities) : arena'.entities[k] = arena.entities[k]]_vars

\* a registered id was offered again with another role and valid preferences, and
\* the call raised
C25_Witness ==
    /\ last_call.op = "add_entity" /\ error = "ValueError"
    /\ \E k \in 1..Len(arena.entities) :
          /\ arena.entities[k].id = last_call.entity.id
          /\ arena.entities[k].role # last_call.entity.role
    /\ \A g \in 1..Len(last_call.entity.glyph_preferences) :
          last_call.entity.glyph_preferences[g] \in arena.glyph_vocabulary

\* C26: within a tick the phases run in order, each finishing before the next
\* starts: cycle increment and globals, all node updates, collection, resolution,
\* spawn check, entity updates, interaction and the later phases. So an anomaly a
\* node update produced is in its page's queue when the resolution phase starts, and
\* an entity spawned in a tick is updated in that tick, before the interaction phase.
C26_PhasesInOrder ==
    /\ [][pc' # pc =>
            <<pc, pc'>> \in
                { <<"idle", "pool">>, <<"pool", "resolve">>, <<"resolve", "spawn">>,
                  <<"spawn", "entities">>, <<"entities", "interact">>,
                  <<"interact", "foam">>, <<"foam", "tesseract">>,
                  <<"tesseract", "housekeeping">>, <<"housekeeping", "idle">> }]_vars
    /\ [][pc = "idle" => sim_state'.cycle = sim_state.cycle + 1]_vars
    /\ [][(pc = "pool" /\ pc' = "resolve") =>
            \A i \in 1..Len(pool_results) :
                /\ pool_results[i].done
                /\ pool_results[i].anomaly # <<>> =>
                      LET q == sim_state'.anomalies[pool_results[i].node.page_index]
                      IN  q # <<>> /\ q[Len(q)] = pool_results[i].anomaly]_vars
    /\ [][(pc = "spawn" /\ Len(sim_state'.agi_entities) > Len(sim_state.agi_entities)) =>
            pc' = "entities"]_vars
    /\ [][(pc = "entities" /\ sim_state.agi_entities # <<>>) =>
            /\ pc' = "interact" /\ error' = "none"
            /\ \A k \in 1..Len(sim_state.agi_entities) :
                  \E j \in 1..Len(sim_state'.agi_entities) :
                      /\ sim_state'.agi_entities[j].id = sim_state.agi_entities[k].id
                      /\ sim_state'.agi_entities[j].strength
                            >= sim_state.agi_entities[k].strength]_vars

\* C27: the periodic housekeeping of a tick runs exactly on its gated cycles: the
\* consistency resolution fires (it logs "Topological Field") exactly when the
\* cycle is a positive multiple of 200 and an average is below 0.7, the correlation
\* analysis writes its analysis_log exactly on positive multiples of 500, the
\* narrative snapshot is taken exactly on positive multiples of 1000; on every
\* other tick the housekeeping leaves globals, entities and the three logs alone.
C27_HousekeepingGates ==
    [][(pc = "housekeeping" /\ pc' = "idle") =>
          LET cycle == sim_state.cycle
              Gate(K) == cycle % K = 0 /\ cycle > 0
              Logged(source) ==
                  Cardinality({k \in 1..Len(sim_state'.event_log) :
                                  sim_state'.event_log[k].source = source})
                  > Cardinality({k \in 1..Len(sim_state.event_log) :
                                    sim_state.event_log[k].source = source})
              low == \/ (IF sim_state.agi_entities = <<>> THEN 5000
                         ELSE Mean(Alignments(sim_state.agi_entities)))
                        < One - CONSISTENCY_VIOLATION_THRESHOLD
                     \/ Mean(Stabilities(sim_state'.nodes)) < One - CONSISTENCY_VIOLATION_THRESHOLD
          IN  /\ Logged("Topological Field") <=> (Gate(200) /\ low)
              /\ ~Gate(200) =>
                    /\ sim_state'.void_entropy = sim_state.void_entropy
                    /\ sim_state'.dark_matter = sim_state.dark_matter
                    /\ sim_state'.agi_entities = sim_state.agi_entities
              /\ sim_state'.analysis_log # sim_state.analysis_log <=> Gate(500)
              /\ Logged("Analysis") <=> Gate(500)
              /\ sim_state'.narratives # sim_state.narratives <=> Gate(1000)
              /\ Logged("Narrative") <=> Gate(1000)]_vars

\* a tick at cycle 500 has run the correlation analysis and neither of the others
C27_Witness ==
    /\ pc = "idle" /\ ticks_run > 0 /\ sim_state.cycle = 500
    /\ sim_state.analysis_log # <<>>
    /\ sim_state.narratives = <<>>
    /\ \A k \in 1..Len(sim_state.event_log) :
          sim_state.event_log[k].source # "Topological Field"

\* C28: resolve_consistency_violation fires when the average entity alignment (0.5
\* with no entities) or the average node stability is below
\* 1 - CONSISTENCY_VIOLATION_THRESHOLD; when it fires it lowers no entity's
\* ethical_alignment and lowers every node's spacetime_defect_intensity by 0.05
\* times the dissonance, floored at 0; when it does not fire it changes nothing.
C28_ConsistencyNudge ==
    [][last_call'.op = "resolve_consistency_violation" =>
          LET avg_ethical_alignment ==
                  IF sim_state.agi_entities # <<>>
                  THEN Mean(Alignments(sim_state.agi_entities)) ELSE 5000
              avg_stability == Mean(Stabilities(sim_state.nodes))
              dissonance == (One - avg_ethical_alignment) + (One - avg_stability)
          IN  IF avg_ethical_alignment < One - CONSISTENCY_VIOLATION_THRESHOLD
                 \/ avg_stability < One - CONSISTENCY_VIOLATION_THRESHOLD
              THEN /\ Len(sim_state'.agi_entities) = Len(sim_state.agi_entities)
                   /\ \A k \in 1..Len(sim_state.agi_entities) :
                         sim_state'.agi_entities[k].ethical_alignment
                            >= sim_state.agi_entities[k].ethical_alignment
                   /\ \A k \in 1..Len(sim_state.nodes) :
                         sim_state'.nodes[k].spacetime_defect_intensity =
                            Max2(0, sim_state.nodes[k].spacetime_defect_intensity
                                    - Frac(dissonance, 5, 100))
              ELSE sim_state' = sim_state]_vars

\* C29: a node's sentience_score changes in two ways only. The node update, whose
\* result the collection installs, adds 0.001 (capped at 1.0) exactly when the
\* node's cohesion after the update's cohesion step is above 0.7; the spawn phase
\* resets it to 0.5 for a node above the threshold. So it never decreases except
\* by a spawn, and no single node update makes a node that has just spawned
\* eligible again.
C29_SentienceChanges ==
    /\ [][\A k \in 1..Len(sim_state.nodes) :
            LET s == sim_state.nodes[k].sentience_score
                s2 == sim_state'.nodes[k].sentience_score
            IN  IF pc = "pool" /\ pc' = "resolve"
                THEN s2 = IF pool_results[k].node.cohesion > 7000
                          THEN Min2(One, s + 10) ELSE s
                ELSE IF pc = "spawn" /\ SpawnEligible(sim_state, sim_state.nodes[k])
                THEN s2 = 5000
                ELSE s2 = s]_vars
    /\ [](pc = "entities" =>
            \A k \in 1..Len(sim_state.nodes) :
                (\E j \in 1..Len(sim_state.agi_entities) :
                    /\ sim_state.agi_entities[j].origin_page = sim_state.nodes[k].page_index
                    /\ sim_state.agi_entities[j].id
                          = EntityId(sim_state.nodes[k].page_index, sim_state.cycle))
                => /\ sim_state.nodes[k].sentience_score = 5000
                   /\ \A d \in {MidNodeDraw} \cup NodeDraws :
                         QuantumNode_update(sim_state.nodes[k], sim_state.void_entropy,
                                            sim_state.dark_matter, sim_state.agi_entities,
                                            d).node.sentience_score
                            <= SENTIENCE_THRESHOLD)

\* a tick has raised the sentience of the first node, whose cohesion is above 0.7,
\* and reset that of the fourth, which spawned
C29_Witness ==
    /\ pc = "entities"
    /\ sim_state.nodes[1].cohesion > 7000
    /\ sim_state.nodes[1].sentience_score \in {8500, 8510}
    /\ sim_state.nodes[4].sentience_score = 5000
    /\ \E j \in 1..Len(sim_state.agi_entities) : sim_state.agi_entities[j].origin_page = 3

\* C30: a node's page_index is its position in sim_state.nodes, in every reachable
\* state: in the copies the pool workers return, after the collection has installed
\* them and after forge_node has appended a node. So the origin_page of every
\* entity and every page that has queued anomalies is the index of a node, and no
\* step changes the page_index at a position.
C30_PageIndexIsPosition ==
    /\ [](/\ \A k \in 1..Len(sim_state.nodes) : sim_state.nodes[k].page_index = k - 1
          /\ \A k \in 1..Len(pool_results) :
                pool_results[k].done => pool_results[k].node.page_index = k - 1
          /\ \A j \in 1..Len(sim_state.agi_entities) :
                /\ 0 <= sim_state.agi_entities[j].origin_page
                /\ sim_state.agi_entities[j].origin_page < Len(sim_state.nodes)
          /\ \A p \in PageRange :
                sim_state.anomalies[p] # <<>> => p < Len(sim_state.nodes))
    /\ [][/\ Len(sim_state'.nodes) >= Len(sim_state.nodes)
          /\ \A k \in 1..Len(sim_state.nodes) :
                sim_state'.nodes[k].page_index = sim_state.nodes[k].page_index]_vars

\* two ticks have each forged a node, and the pool has worked on seven nodes
C30_Witness ==
    /\ pc = "idle" /\ ticks_run = 2
    /\ Len(sim_state.nodes) = PAGE_COUNT + 2
    /\ sim_state.nodes[PAGE_COUNT + 2].page_index = PAGE_COUNT + 1
    /\ sim_state.nodes_forged = 2
\* the names of the sigils of a ledger, in the order they were added
SigilNames(S) == [k \in 1..Len(S.sigils) |-> S.sigils[k].name]

\* C31: the ledger is keyed by unique name. add_sigil with a name the ledger holds
\* returns False (the console answers "already exists") and leaves every sigil as
\* it was; with a new name it returns True and appends exactly that sigil. No step
\* removes or renames a sigil, so "Christic" is in the ledger in every state.
C31_LedgerKeyedByName ==
    /\ [](/\ \A j, k \in 1..Len(sim_state.sigils) :
                 sim_state.sigils[j].name = sim_state.sigils[k].name => j = k
          /\ \E k \in 1..Len(sim_state.sigils) : sim_state.sigils[k].name = "Christic")
    /\ [][/\ Len(sim_state'.sigils) >= Len(sim_state.sigils)
          /\ SubSeq(SigilNames(sim_state'), 1, Len(sim_state.sigils)) = SigilNames(sim_state)]_vars
    /\ [][(pc = "main" /\ last_call'.op = "c" /\ error' = "none"
           /\ Len(last_call'.parts) = 4
           /\ last_call'.parts[1] = "add" /\ last_call'.parts[2] = "sigil")
          => LET name == last_call'.parts[3]
                 said == sim_state'.event_log[Len(sim_state'.event_log)].message
             IN  IF \E k \in 1..Len(sim_state.sigils) : sim_state.sigils[k].name = name
                 THEN /\ sim_state'.sigils = sim_state.sigils
                      /\ said = <<"already exists", name>>
                 ELSE /\ sim_state'.sigils =
                            Append(sim_state.sigils,
                                   [name |-> name, meaning |-> last_call'.parts[4],
                                    semantic_vector |-> MidConsoleDraw.semantic_vector,
                                    phase_change_history |-> <<>>])
                      /\ said = <<"added", name>>]_vars

\* the console has refused "add sigil beacon hope": the ledger holds "beacon" once
C31_Witness ==
    /\ last_call.op = "c" /\ Len(last_call.parts) = 4 /\ last_call.parts[3] = "beacon"
    /\ sim_state.event_log[Len(sim_state.event_log)].message = <<"already exists", "beacon">>
    /\ SigilNames(sim_state) = <<"Christic", "beacon">>

\* the rotation history of the sigil of that name
HistoryOf(S, name) == get_sigil(S, name).sigil.phase_change_history

RunsDrift == pc = "main" /\ last_call'.op = "c"
                 /\ last_call'.parts = <<"run", "drift", <<"9", "0">> >>

\* C33: the drift experiment is bounded. With a sigil other than "Christic" in the
\* ledger, "run drift 90" rotates exactly one such sigil once, and the experiment
\* then runs all of its ticks: it is not cut short, and when it is over the cycle
\* is exactly DRIFT_TICKS above the cycle it started at. With "Christic" alone it
\* rotates nothing and runs no tick. "Christic" is never rotated.
C33_DriftBounded ==
    /\ [](/\ HistoryOf(sim_state, "Christic") = <<>>
          /\ ui.drift # <<>> => pc # "aborted")
    /\ [][RunsDrift =>
            IF Len(sim_state.sigils) > 1
            THEN /\ ui'.drift # <<>> /\ ui'.until = ticks_run + DRIFT_TICKS
                 /\ HistoryOf(sim_state', "beacon") =
                       Append(HistoryOf(sim_state, "beacon"), <<90 * One, sim_state.cycle>>)
            ELSE /\ ui'.drift = <<>> /\ ui'.until <= ticks_run + 1
                 /\ sim_state'.sigils = sim_state.sigils]_vars
    /\ [][(ui.drift # <<>> /\ ui'.drift = <<>>) =>
              sim_state'.cycle = ui.drift[1].cycle + DRIFT_TICKS]_vars

\* C34: the run stops at the cycle limit. In every state reached through the main
\* loop the cycle is at most CYCLE_LIMIT, and a loop that ends because its test of
\* the cycle fails ends at exactly CYCLE_LIMIT.
C34_StopsAtLimit ==
    /\ sim_state.cycle <= CYCLE_LIMIT
    /\ (pc = "main" /\ ~(sim_state.cycle < CYCLE_LIMIT)) => sim_state.cycle = CYCLE_LIMIT

C36_TurbulenceRemovesHighEnergy ==
    /\ [](\A k \in 1..Len(sim_state.virtual_particles) :
             sim_state.virtual_particles[k][1] <= 2 * One)
    /\ [][pc = "foam" =>
            /\ error' = "none" /\ pc' = "tesseract"
            /\ Len(sim_state'.virtual_particles) \in
                  {Len(sim_state.virtual_particles), Len(sim_state.virtual_particles) + 1}
            /\ SubSeq(sim_state'.virtual_particles, 1, Len(sim_state.virtual_particles)) =
                  sim_state.virtual_particles]_vars
    /\ [][pc # "foam" => sim_state'.virtual_particles = sim_state.virtual_particles]_vars

\* a particle of energy 2.5 was generated behind two that stay, and its turbulence
\* has made a micro-node
C36_Witness ==
    /\ pc = "tesseract"
    /\ sim_state.virtual_particles = LateParticles
    /\ sim_state.event_log[Len(sim_state.event_log)].source = "Quantum Foam"
    /\ sim_state.event_log[Len(sim_state.event_log)].message[1] = "Micro-node"

\* C37: vacuum decay is global and gated by alignment. The update of an entity
\* whose alignment is below 0.8 (1 - ethical_alignment > VACUUM_DECAY_THRESHOLD)
\* lowers the stability of every node, down to 0 at most; so the entity phase of
\* a tick with such an entity leaves every node less stable than it was, or at 0.
C37_VacuumDecayGated ==
    [][(pc = "entities"
        /\ \E k \in 1..Len(sim_state.agi_entities) :
               One - sim_state.agi_entities[k].ethical_alignment > VACUUM_DECAY_THRESHOLD)
       => \A i \in 1..Len(sim_state.nodes) :
             \/ sim_state'.nodes[i].stability < sim_state.nodes[i].stability
             \/ sim_state'.nodes[i].stability = 0]_vars

\* the last word of a 'set divinity <x>' line the main loop has just run, <<>> for
\* every other step
DivinityText ==
    IF pc = "main" /\ last_call'.op = "c" /\ Len(last_call'.parts) = 3
       /\ last_call'.parts[1] = "set" /\ last_call'.parts[2] = "divinity"
    THEN last_call'.parts[3] ELSE <<>>

\* C38: user_divinity stays within 0.0 .. 1.0; 'set divinity <x>' is its only writer
\* and stores x only when x parses as a number within that range ("0.7" is stored,
\* "2", "-0.5" and "abc" leave the value as it was); a node the Titan Forger
\* appends starts with stability min(1.0, 0.55 + user_divinity * 0.1), at most 1.0
C38_DivinityInUnitRange ==
    /\ [](0 <= sim_state.user_divinity /\ sim_state.user_divinity <= One)
    /\ [][/\ sim_state'.user_divinity # sim_state.user_divinity => DivinityText # <<>>
          /\ DivinityText = <<"0", ".", "7">> => sim_state'.user_divinity = 7000
          /\ DivinityText \in {<<"2">>, <<"-", "0", ".", "5">>, <<"a", "b", "c">>}
                => sim_state'.user_divinity = sim_state.user_divinity
          /\ Len(sim_state'.nodes) > Len(sim_state.nodes)
                => LET new_node == sim_state'.nodes[Len(sim_state'.nodes)]
                   IN  /\ new_node.stability <= One
                       /\ new_node.stability
                             = Min2(One, 5500 + Frac(sim_state.user_divinity, 1, 10))]_vars

\* the divinity set to 0.7 at the console has gone into a forged node
C38_Witness ==
    /\ sim_state.user_divinity = 7000
    /\ Len(sim_state.nodes) > PAGE_COUNT
    /\ sim_state.nodes[Len(sim_state.nodes)].stability = 6200

\* the places of the entity the last call named, in the arena before the call
CalledEntity == {k \in 1..Len(arena.entities) : arena.entities[k].id = last_call'.name}

\* C39: generate_response is all or nothing. For an id that is not registered or an
\* empty prompt it raises ValueError, and whenever it raises the arena (responses,
\* memory_lines, tokens) is as it was. When it returns it has appended exactly one
\* response, for that entity and prompt, has added the number of the response's
\* glyphs to the entity's memory_lines and 1 to its tokens if and only if the
\* response's token_earned is true, and has changed nothing else of any entity.
C39_ResponseAllOrNothing ==
    [][last_call'.op = "generate_response" =>
        /\ (CalledEntity = {} \/ last_call'.prompt = <<>>) => error' = "ValueError"
        /\ error' # "none" => arena' = arena
        /\ error' = "none" =>
              LET response == arena'.responses[Len(arena'.responses)]
              IN  /\ arena'.responses = Append(arena.responses, response)
                  /\ response.entity_id = last_call'.name
                  /\ response.prompt = last_call'.prompt
                  /\ Len(response.glyphs) = last_call'.k1
                  /\ Len(arena'.entities) = Len(arena.entities)
                  /\ \A k \in 1..Len(arena.entities) :
                        arena'.entities[k] =
                            IF k \in CalledEntity
                            THEN [arena.entities[k] EXCEPT
                                     !.memory_lines = @ + Len(response.glyphs),
                                     !.tokens = IF response.token_earned THEN @ + 1 ELSE @]
                            ELSE arena.entities[k]]_vars

\* a call raised and left no response, the next call returned a response that
\* earned the witch of main her eighth token
C39_Witness ==
    /\ last_call.op = "generate_response" /\ last_call.seq = 2 /\ error = "none"
    /\ Len(arena.responses) = 1
    /\ arena.responses[1].token_earned
    /\ arena.entities[1].tokens = 8
    /\ arena.entities[1].memory_lines = 1190305 + 20

\* C40: for an entity that has a knowledge prompt, train_knowledge_management leaves
\* memory_lines no larger than it was before the call, and drift no larger than
\* before and never below 0.1
C40_TrainingReducesMemory ==
    [][last_call'.op = "train_knowledge_management" =>
        \A k \in CalledEntity :
            arena.entities[k].id \in {"8b1ddea1", "d7aa63e2", "2272897c"} =>
                /\ arena'.entities[k].memory_lines <= arena.entities[k].memory_lines
                /\ arena'.entities[k].drift <= arena.entities[k].drift
                /\ arena'.entities[k].drift >= 1000]_vars

====
